---- MODULE Spec2Model ----
(***************************************************************************)
(* Control plane of the Kubernetes edge computing framework.               *)
(*                                                                         *)
(* Two implementations live in the repository:                             *)
(*   - the Go central orchestrator (orchestrator.go, the workload handlers *)
(*     and the type declarations): node registry, health sweep, workload   *)
(*     collection and the scheduling loop;                                 *)
(*   - the JavaScript NodeManager (nodeManager.js): node registry and      *)
(*     health sweep of the Node.js variant.                                *)
(* Each has a SecurityManager: bearer tokens in the JavaScript one,        *)
(* certificates in the Go one.                                             *)
(*                                                                         *)
(* The registries count time in minutes, the SecurityManagers in ticks of   *)
(* half a second.  Timestamps of workloads and deployment records, node     *)
(* resources, names and addresses are written by the code but read by none  *)
(* of the modelled operations; they are left out.                          *)
(***************************************************************************)
EXTENDS Integers, Sequences, FiniteSets, TLC

(***************************************************************************)
(* Bounds of the model.                                                    *)
(***************************************************************************)
MaxNodes == 2
MaxWorkloads == 1
MaxReplicas == 2
MaxDeployments == 3
MaxTime == 4
MaxJsNodes == 2
MaxJsTime == 6
MaxHandlers == 2
MaxStoredWorkloads == 2
MaxTokens == 3
MaxCertificates == 3
MaxJsWorkloads == 1
TicksPerSecond == 2
MaxRegisterTime == 3

\* Nodes in the specification of the three locks.
MaxLockNodes == 1

(***************************************************************************)
(* Program constants.                                                      *)
(***************************************************************************)
\* orchestrator.go:77  time.Since(node.LastHeartbeat) > 2*time.Minute
GoStaleMinutes == 2
\* nodeManager.js:83   timeDiff > 5 * 60 * 1000
JsStaleMinutes == 5

\* Outcome of a call of the JavaScript NodeManager: it returned, or it threw
\* Error("Node not found: ...").
Returned == 0
ThrewNotFound == 1

\* Results of validateToken and revokeToken.
JsFalse == 0
JsTrue == 1

\* Errors of the Go SecurityManager: nil, "certificate not found",
\* "certificate is not valid at current time", "failed to parse certificate
\* PEM", "failed to generate private key".
ErrNil == 0
ErrCertificateNotFound == 1
ErrCertificateNotValid == 2
ErrParsePEM == 3
ErrGenerateKey == 4

\* Durations, in ticks of the SecurityManagers' clock.
Day == 24 * 60 * 60 * TicksPerSecond
\* securityManager.js:14  expiresAt.setDate(expiresAt.getDate() + 30)
TokenValidity == 30 * Day
\* securityManager.js:76  CertValidityPeriod = 365 * 24 * time.Hour
CertValidityPeriod == 365 * Day

NodeStatusOnline == "online"
NodeStatusOffline == "offline"
NodeStatusDegraded == "degraded"
NodeStatusMaintenance == "maintenance"

WorkloadStatusPending == "pending"
WorkloadStatusRunning == "running"
WorkloadStatusStopped == "stopped"

PlacementStrategyEdgeFirst == "edge-first"
PlacementStrategyLoadBalance == "load-balance"
PlacementStrategyResource == "resource-aware"
PlacementStrategyCloudFirst == "cloud-first"
PlacementStrategyLatency == "latency-aware"

(***************************************************************************)
(* Inputs of the requests.                                                 *)
(***************************************************************************)
NodeIDs == 1..MaxNodes
WorkloadIDs == 1..MaxWorkloads

\* HeartbeatRequest.Status: the handler stores whatever the request carries.
HeartbeatStatuses ==
  {NodeStatusOnline, NodeStatusOffline, NodeStatusDegraded, NodeStatusMaintenance}

\* NodeRegistrationRequest.Region; "" is an absent region.
RegionInputs == {"", "eu"}

NoLabels == [k \in {} |-> ""]

\* WorkloadDeploymentRequest.Name, .Type and .Image of a request that has
\* them all, and of the requests that lack one; "" is an absent field.
CompleteRequest == <<"web", "deployment", "nginx">>
IncompleteRequests ==
  { <<"", "deployment", "nginx">>, <<"web", "", "nginx">>, <<"web", "deployment", "">> }

\* WorkloadDeploymentRequest.Replicas and ScaleWorkloadRequest.Replicas (int32).
ReplicaInputs == (-1)..MaxReplicas

\* WorkloadDeploymentRequest.Placement.Strategy; "" is an absent strategy.
StrategyInputs == {"", PlacementStrategyLoadBalance}

\* WorkloadDeploymentRequest.Placement.Constraints.
ConstraintInputs ==
  { <<>>, << [Key |-> "region", Operator |-> "In", Values |-> <<"eu">>] >> }

VARIABLES
  variant,      \* the implementation that is running: "go" or "js"
  now,          \* wall clock, in minutes
  nodes,        \* NodeManager.nodes: id -> EdgeNode
  nodeSeq,      \* number of node ids generateID has handed out
  workloads,    \* WorkloadManager.workloads: id -> Workload
  workloadSeq,  \* number of workload ids generateID has handed out
  schedPc,      \* position of the workloadScheduler goroutine
  schedTodo,    \* workloads the current tick's range loop has not visited yet
  schedCur,     \* workload scheduleWorkload is placing (0: none)
  schedSel,     \* nodes returned by selectNodesForWorkload, in order
  schedSnap,    \* the registry as selectNodesForWorkload read it
  crashed,      \* the process died of a runtime panic
  last,         \* last operation run and its outcome
  jsNodes,      \* JavaScript NodeManager.nodes: id -> node
  jsSeq,        \* number of ids uuidv4 has handed out to the NodeManager
  inFlight,     \* RegisterNode requests between building the node and the lock
  clock,        \* wall clock as the SecurityManagers read it, in half seconds
  tokens,       \* JavaScript SecurityManager.tokens: node id -> token entry
  tokenSeq,     \* number of secrets crypto.randomBytes has handed out
  certificates, \* Go SecurityManager.certificates: id -> Certificate
  certSeq,      \* number of certificate ids generateID has handed out
  issuedPEMs,   \* the certificates GenerateCertificate returned, by id, as
                \* their receivers hold them
  jsWorkloads,  \* JavaScript WorkloadManager.workloads: id -> workload
  jsWorkloadSeq,\* number of ids uuidv4 has handed out to the WorkloadManager
  jsMetrics,    \* JavaScript MonitoringService.metrics: node id -> metrics
  request,      \* the x-node-id and x-auth-token headers of the request the
                \* routes handled last
  nodeLock,     \* NodeManager.mutex: the threads that hold it shared, and
                \* the thread that holds it exclusively
  workloadLock, \* WorkloadManager.mutex, likewise
  pcs,          \* position of the health checker and of the handlers that
                \* are followed statement by statement
  sweepTodo,    \* nodes the range loop of checkNodeHealth has not visited yet
  sweepCur,     \* node checkNodeHealth is about to set offline (0: none)
  hbCur,        \* node of the NodeHeartbeat request in progress (0: none)
  mainPc,       \* position of main: "serving", "shutdown" or "exited"
  metricsLock,  \* MonitoringService.mutex
  collectPc,    \* position of collectMetrics
  collected,    \* the counts collectMetrics has taken so far
  metrics,      \* MonitoringService.metrics
  handlerPcs    \* position of the GetMetrics and ListWorkloads handlers
                \* that are followed statement by statement

secVars == <<clock, tokens, tokenSeq, certificates, certSeq, issuedPEMs>>
jsAppVars == <<jsWorkloads, jsWorkloadSeq, jsMetrics, request>>

lockVars == <<nodeLock, workloadLock, pcs, sweepTodo, sweepCur, hbCur>>
procVars == <<mainPc, metricsLock, collectPc, collected, metrics, handlerPcs>>

vars == <<variant, now, nodes, nodeSeq, workloads, workloadSeq, schedPc, schedTodo,
          schedCur, schedSel, schedSnap, crashed, last, jsNodes, jsSeq,
          inFlight, secVars, jsAppVars, lockVars, procVars>>

goVars == <<nodes, nodeSeq, workloads, workloadSeq, schedPc, schedTodo,
            schedCur, schedSel, schedSnap, crashed>>
schedVars == <<schedPc, schedTodo, schedCur, schedSel, schedSnap>>
jsVars == <<jsNodes, jsSeq>>

NoNodes == [id \in {} |-> 0]
NoWorkloads == [id \in {} |-> 0]
NoRequests == [h \in {} |-> 0]
NoTokens == [id \in {} |-> 0]
NoCertificates == [id \in {} |-> 0]
NoMetrics == [id \in {} |-> 0]

\* A header the request does not carry (undefined in JavaScript).
NoHeader == 0 - 1
NoRequest == [nodeId |-> NoHeader, token |-> NoHeader]

\* A date that was never set (undefined in JavaScript).
NoDate == 0 - 1

\* A sync.RWMutex nobody holds.
Unlocked == [readers |-> {}, writer |-> "none"]

\* MonitoringService.metrics as NewMonitoringService makes it: an empty map.
NoSnapshot == [key \in {} |-> 0]

\* The local counters of collectMetrics before it has counted anything.
NoCounts == [nodeCount |-> 0, onlineNodes |-> 0, workloadCount |-> 0,
             runningWorkloads |-> 0]

\* The handlers that only read under a read lock and are followed from
\* RLock to RUnlock: GetMetrics and ListWorkloads.
Handlers == {"metrics", "workloads"}

\* The goroutines that are followed statement by statement: the health
\* checker, a ListNodes handler and a NodeHeartbeat handler.  The position
\* of the workload scheduler is schedPc.
Threads == {"sweep", "list", "heartbeat"}

(***************************************************************************)
(* Helpers.                                                                *)
(***************************************************************************)
\* generateID with a bug that would make it repeat itself: a generator that
\* hands out the same bytes on every call.
generateIDRepeating(issued) == 1

\* generateID: 16 random bytes, hex encoded; a value no earlier call returned.
\* Ids are numbered in the order they are drawn.
generateID(issued) == issued + 1

\* contains(slice, item)
contains(slice, item) == \E i \in 1..Len(slice) : slice[i] = item

\* delete(map, key)
MapDelete(m, key) == [k \in (DOMAIN m) \ {key} |-> m[k]]

\* map[key] = value
MapPut(m, key, value) ==
  [k \in (DOMAIN m) \cup {key} |-> IF k = key THEN value ELSE m[k]]

\* The orders in which a range loop over a Go map may enumerate the keys S.
Orderings(S) ==
  { f \in [1..Cardinality(S) -> S] : \A i, j \in DOMAIN f : i # j => f[i] # f[j] }

(***************************************************************************)
(* Initial state: NewNodeManager, NewWorkloadManager, NewSecurityManager    *)
(* and the constructors of the JavaScript managers.                        *)
(***************************************************************************)
Start ==
  /\ now = 0
  /\ nodes = NoNodes
  /\ nodeSeq = 0
  /\ workloads = NoWorkloads
  /\ workloadSeq = 0
  /\ schedPc = "idle"
  /\ schedTodo = {}
  /\ schedCur = 0
  /\ schedSel = <<>>
  /\ schedSnap = NoNodes
  /\ crashed = FALSE
  /\ last = [op |-> "init", code |-> 0]
  /\ jsNodes = NoNodes
  /\ jsSeq = 0
  /\ inFlight = NoRequests
  /\ clock = 0
  /\ tokens = NoTokens
  /\ tokenSeq = 0
  /\ certificates = NoCertificates
  /\ certSeq = 0
  /\ issuedPEMs = NoCertificates
  /\ jsWorkloads = NoWorkloads
  /\ jsWorkloadSeq = 0
  /\ jsMetrics = NoMetrics
  /\ request = NoRequest
  /\ nodeLock = Unlocked
  /\ workloadLock = Unlocked
  /\ pcs = [t \in Threads |-> "idle"]
  /\ sweepTodo = {}
  /\ sweepCur = 0
  /\ hbCur = 0
  /\ mainPc = "serving"
  /\ metricsLock = Unlocked
  /\ collectPc = "idle"
  /\ collected = NoCounts
  /\ metrics = NoSnapshot
  /\ handlerPcs = [h \in Handlers |-> "idle"]

Init ==
  /\ variant = "go"
  /\ Start

(***************************************************************************)
(* Go orchestrator: node registry (orchestrator.go).                       *)
(***************************************************************************)
\* RegisterNode: a fresh id, status online, LastHeartbeat = now, defaults
\* for an absent region, zone and label map.
RegisterNode(region, zone, labels) ==
  /\ ~crashed
  /\ nodeSeq < MaxNodes
  /\ LET nodeID == generateID(nodeSeq)
         node == [ID |-> nodeID,
                  Status |-> NodeStatusOnline,
                  LastHeartbeat |-> now,
                  UpdatedAt |-> now,
                  Region |-> IF region = "" THEN "default" ELSE region,
                  Zone |-> IF zone = "" THEN "default" ELSE zone,
                  Labels |-> labels]
     IN /\ nodes' = MapPut(nodes, nodeID, node)
        /\ nodeSeq' = nodeID
  /\ last' = [op |-> "RegisterNode", code |-> 201]
  /\ UNCHANGED <<variant, now, workloads, workloadSeq, schedVars, crashed, jsVars, inFlight, secVars, jsAppVars,
                 lockVars, procVars>>

\* GetNode: 404 for an unknown id, else the node.
GetNode(nodeID) ==
  /\ ~crashed
  /\ last' = [op |-> "GetNode",
              code |-> IF nodeID \in DOMAIN nodes THEN 200 ELSE 404]
  /\ UNCHANGED <<variant, now, goVars, jsVars, inFlight, secVars, jsAppVars, lockVars, procVars>>

\* The records of a deployment list that do not name the node.
RecordsElsewhere(deployments, nodeID) ==
  LET NotOn(record) == record.NodeID # nodeID IN SelectSeq(deployments, NotOn)

\* UnregisterNode with a cleanup the code does not have: it would also drop
\* the deployment records that name the node.
UnregisterNodeDroppingRecords(nodeID) ==
  /\ ~crashed
  /\ IF nodeID \notin DOMAIN nodes
       THEN /\ last' = [op |-> "UnregisterNode", code |-> 404]
            /\ UNCHANGED <<nodes, workloads>>
       ELSE /\ nodes' = MapDelete(nodes, nodeID)
            /\ workloads' =
                 [w \in DOMAIN workloads |->
                    [workloads[w] EXCEPT
                       !.Deployments = RecordsElsewhere(@, nodeID)]]
            /\ last' = [op |-> "UnregisterNode", code |-> 200]
  /\ UNCHANGED <<variant, now, nodeSeq, workloadSeq, schedVars, crashed, jsVars,
                 inFlight, secVars, jsAppVars, lockVars, procVars>>

\* UnregisterNode: 404 for an unknown id, else the entry is deleted.
UnregisterNode(nodeID) ==
  /\ ~crashed
  /\ IF nodeID \notin DOMAIN nodes
       THEN /\ last' = [op |-> "UnregisterNode", code |-> 404]
            /\ UNCHANGED nodes
       ELSE /\ nodes' = MapDelete(nodes, nodeID)
            /\ last' = [op |-> "UnregisterNode", code |-> 200]
  /\ UNCHANGED <<variant, now, nodeSeq, workloads, workloadSeq, schedVars, crashed, jsVars, inFlight, secVars, jsAppVars,
                 lockVars, procVars>>

\* NodeHeartbeat with a bug that would keep a node the sweep has set offline
\* offline: the heartbeat is accepted but the status is not taken over.
NodeHeartbeatKeepingOffline(nodeID, status) ==
  /\ ~crashed
  /\ IF nodeID \notin DOMAIN nodes
       THEN /\ last' = [op |-> "NodeHeartbeat", code |-> 404]
            /\ UNCHANGED nodes
       ELSE /\ nodes' =
                 [nodes EXCEPT
                    ![nodeID].Status =
                       IF @ = NodeStatusOffline THEN @ ELSE status,
                    ![nodeID].LastHeartbeat = now,
                    ![nodeID].UpdatedAt = now]
            /\ last' = [op |-> "NodeHeartbeat", code |-> 200]
  /\ UNCHANGED <<variant, now, nodeSeq, workloads, workloadSeq, schedVars, crashed, jsVars, inFlight, secVars, jsAppVars,
                 lockVars, procVars>>

\* NodeHeartbeat: 404 for an unknown id, else status, heartbeat time and
\* update time are overwritten with the request's status and the clock.
NodeHeartbeat(nodeID, status) ==
  /\ ~crashed
  /\ IF nodeID \notin DOMAIN nodes
       THEN /\ last' = [op |-> "NodeHeartbeat", code |-> 404]
            /\ UNCHANGED nodes
       ELSE /\ nodes' = [nodes EXCEPT ![nodeID].Status = status,
                                      ![nodeID].LastHeartbeat = now,
                                      ![nodeID].UpdatedAt = now]
            /\ last' = [op |-> "NodeHeartbeat", code |-> 200]
  /\ UNCHANGED <<variant, now, nodeSeq, workloads, workloadSeq, schedVars, crashed, jsVars, inFlight, secVars, jsAppVars,
                 lockVars, procVars>>

\* The sweep without its test for offline: a bug that would stamp a stale
\* node's UpdatedAt again on every run.
SweptRegistryRestamping(reg, t) ==
  [id \in DOMAIN reg |->
     IF t - reg[id].LastHeartbeat > GoStaleMinutes
       THEN [reg[id] EXCEPT !.Status = NodeStatusOffline, !.UpdatedAt = t]
       ELSE reg[id]]

\* The sweep sparing degraded nodes and nodes in maintenance.
SweptRegistrySparing(reg, t) ==
  [id \in DOMAIN reg |->
     IF t - reg[id].LastHeartbeat > GoStaleMinutes
       THEN IF reg[id].Status \notin {NodeStatusOffline, NodeStatusDegraded,
                                      NodeStatusMaintenance}
              THEN [reg[id] EXCEPT !.Status = NodeStatusOffline, !.UpdatedAt = t]
              ELSE reg[id]
       ELSE reg[id]]

\* The sweep with >= for >: a bug that would set a node offline the moment
\* its heartbeat is exactly two minutes old.
SweptRegistryEager(reg, t) ==
  [id \in DOMAIN reg |->
     IF t - reg[id].LastHeartbeat >= GoStaleMinutes
       THEN IF reg[id].Status # NodeStatusOffline
              THEN [reg[id] EXCEPT !.Status = NodeStatusOffline, !.UpdatedAt = t]
              ELSE reg[id]
       ELSE reg[id]]

\* The registry after one run of checkNodeHealth at time t: every node whose
\* heartbeat is older than two minutes and that is not offline is set offline.
SweptRegistry(reg, t) ==
  [id \in DOMAIN reg |->
     IF t - reg[id].LastHeartbeat > GoStaleMinutes
       THEN IF reg[id].Status # NodeStatusOffline
              THEN [reg[id] EXCEPT !.Status = NodeStatusOffline, !.UpdatedAt = t]
              ELSE reg[id]
       ELSE reg[id]]

\* checkNodeHealth, run by nodeHealthChecker on every tick of its timer.  The
\* outcome recorded is the number of "is offline" warnings it logged.
checkNodeHealth ==
  /\ ~crashed
  /\ nodes' = SweptRegistry(nodes, now)
  /\ last' = [op |-> "checkNodeHealth",
              code |-> Cardinality({ id \in DOMAIN nodes :
                                       nodes'[id].Status # nodes[id].Status })]
  /\ UNCHANGED <<variant, now, nodeSeq, workloads, workloadSeq, schedVars, crashed, jsVars, inFlight, secVars, jsAppVars,
                 lockVars, procVars>>

\* The clock advances by one minute.
AdvanceTime(bound) ==
  /\ now < bound
  /\ now' = now + 1
  /\ UNCHANGED <<variant, goVars, last, jsVars, inFlight, secVars, jsAppVars, lockVars, procVars>>

(***************************************************************************)
(* Go orchestrator: workload handlers.  Each handler takes the workload    *)
(* collection's lock, which the scheduling loop holds for a whole tick.    *)
(***************************************************************************)
WorkloadLockFree == schedPc = "idle"

\* c.ShouldBindJSON(&req) of DeployWorkload: name, type and image carry
\* binding:"required", which an absent or empty string fails.
Binds(name, type, image) == name # "" /\ type # "" /\ image # ""

\* The workload DeployWorkload builds from a request that binds.
NewWorkload(workloadID, replicas, strategy, constraints) ==
  [ID |-> workloadID,
   Replicas |-> IF replicas = 0 THEN 1 ELSE replicas,
   Placement |->
     [Strategy |-> IF strategy = "" THEN PlacementStrategyEdgeFirst ELSE strategy,
      Constraints |-> constraints],
   Status |-> WorkloadStatusPending,
   Deployments |-> <<>>]

\* DeployWorkload with a bug that would store the workload of a request
\* that does not bind and answer 400 all the same.
DeployWorkloadStoringRejected(name, type, image, replicas, strategy, constraints) ==
  /\ ~crashed
  /\ WorkloadLockFree
  /\ LET workloadID == generateID(workloadSeq) IN
       /\ workloads' = MapPut(workloads, workloadID,
                              NewWorkload(workloadID, replicas, strategy, constraints))
       /\ workloadSeq' = workloadID
  /\ last' = [op |-> "DeployWorkload",
              code |-> IF Binds(name, type, image) THEN 201 ELSE 400]
  /\ UNCHANGED <<variant, now, nodes, nodeSeq, schedVars, crashed, jsVars, inFlight, secVars, jsAppVars, lockVars, procVars>>

\* DeployWorkload: 400 for a request without name, type or image; else a
\* fresh id, status pending, no deployment record, and the defaults for an
\* absent replica count and strategy.
DeployWorkload(name, type, image, replicas, strategy, constraints) ==
  /\ ~crashed
  /\ IF ~Binds(name, type, image)
       THEN /\ last' = [op |-> "DeployWorkload", code |-> 400]
            /\ UNCHANGED <<workloads, workloadSeq>>
       ELSE /\ WorkloadLockFree
            /\ LET workloadID == generateID(workloadSeq) IN
                 /\ workloads' = MapPut(workloads, workloadID,
                                        NewWorkload(workloadID, replicas, strategy,
                                                    constraints))
                 /\ workloadSeq' = workloadID
            /\ last' = [op |-> "DeployWorkload", code |-> 201]
  /\ UNCHANGED <<variant, now, nodes, nodeSeq, schedVars, crashed, jsVars, inFlight, secVars, jsAppVars, lockVars, procVars>>

\* ListWorkloads: reads the collection.
ListWorkloads ==
  /\ ~crashed
  /\ WorkloadLockFree
  /\ last' = [op |-> "ListWorkloads", code |-> 200]
  /\ UNCHANGED <<variant, now, goVars, jsVars, inFlight, secVars, jsAppVars, lockVars, procVars>>

\* GetWorkload: 404 for an unknown id, else the workload.
GetWorkload(workloadID) ==
  /\ ~crashed
  /\ WorkloadLockFree
  /\ last' = [op |-> "GetWorkload",
              code |-> IF workloadID \in DOMAIN workloads THEN 200 ELSE 404]
  /\ UNCHANGED <<variant, now, goVars, jsVars, inFlight, secVars, jsAppVars, lockVars, procVars>>

\* DeleteWorkload without its test for an unknown id: a bug that would
\* answer 200 whatever the id (delete on a map ignores a missing key).
DeleteWorkloadUnchecked(workloadID) ==
  /\ ~crashed
  /\ WorkloadLockFree
  /\ workloads' = MapDelete(workloads, workloadID)
  /\ last' = [op |-> "DeleteWorkload", code |-> 200]
  /\ UNCHANGED <<variant, now, nodes, nodeSeq, workloadSeq, schedVars, crashed, jsVars, inFlight, secVars, jsAppVars,
                 lockVars, procVars>>

\* DeleteWorkload without the delete: a bug that would mark the workload
\* stopped, answer 200 and keep it in the collection.
DeleteWorkloadStopping(workloadID) ==
  /\ ~crashed
  /\ WorkloadLockFree
  /\ IF workloadID \notin DOMAIN workloads
       THEN /\ last' = [op |-> "DeleteWorkload", code |-> 404]
            /\ UNCHANGED workloads
       ELSE /\ workloads' = [workloads EXCEPT ![workloadID].Status = WorkloadStatusStopped]
            /\ last' = [op |-> "DeleteWorkload", code |-> 200]
  /\ UNCHANGED <<variant, now, nodes, nodeSeq, workloadSeq, schedVars, crashed, jsVars, inFlight, secVars, jsAppVars,
                 lockVars, procVars>>

\* DeleteWorkload: 404 for an unknown id, else the workload is marked
\* stopped and removed from the collection.
DeleteWorkload(workloadID) ==
  /\ ~crashed
  /\ WorkloadLockFree
  /\ IF workloadID \notin DOMAIN workloads
       THEN /\ last' = [op |-> "DeleteWorkload", code |-> 404]
            /\ UNCHANGED workloads
       ELSE /\ workloads' = MapDelete(workloads, workloadID)
            /\ last' = [op |-> "DeleteWorkload", code |-> 200]
  /\ UNCHANGED <<variant, now, nodes, nodeSeq, workloadSeq, schedVars, crashed, jsVars, inFlight, secVars, jsAppVars,
                 lockVars, procVars>>

\* ScaleWorkload with a bug that would mark the scaled workload running at
\* once instead of handing it back to the scheduler.
ScaleWorkloadRunning(workloadID, replicas) ==
  /\ ~crashed
  /\ replicas # 0
  /\ WorkloadLockFree
  /\ workloadID \in DOMAIN workloads
  /\ Len(workloads[workloadID].Deployments) + replicas <= MaxDeployments
  /\ workloads' = [workloads EXCEPT ![workloadID].Replicas = replicas,
                                    ![workloadID].Status = WorkloadStatusRunning]
  /\ last' = [op |-> "ScaleWorkload", code |-> 200]
  /\ UNCHANGED <<variant, now, nodes, nodeSeq, workloadSeq, schedVars, crashed, jsVars, inFlight, secVars, jsAppVars,
                 lockVars, procVars>>

\* ScaleWorkload without the lock of the workload collection: a bug that
\* would let it write while a scheduling pass is under way.
ScaleWorkloadUnlocked(workloadID, replicas) ==
  /\ ~crashed
  /\ IF replicas = 0
       THEN /\ last' = [op |-> "ScaleWorkload", code |-> 400]
            /\ UNCHANGED workloads
       ELSE IF workloadID \notin DOMAIN workloads
              THEN /\ last' = [op |-> "ScaleWorkload", code |-> 404]
                   /\ UNCHANGED workloads
              ELSE /\ Len(workloads[workloadID].Deployments) + replicas
                        <= MaxDeployments
                   /\ workloads' =
                        [workloads EXCEPT
                           ![workloadID].Replicas = replicas,
                           ![workloadID].Status = WorkloadStatusPending]
                   /\ last' = [op |-> "ScaleWorkload", code |-> 200]
  /\ UNCHANGED <<variant, now, nodes, nodeSeq, workloadSeq, schedVars, crashed, jsVars,
                 inFlight, secVars, jsAppVars, lockVars, procVars>>

\* ScaleWorkload: 400 when the request's replica count is absent or zero
\* (binding:"required"), 404 for an unknown id, else the replica count is
\* overwritten and the status reset to pending.
ScaleWorkload(workloadID, replicas) ==
  /\ ~crashed
  /\ IF replicas = 0
       THEN /\ last' = [op |-> "ScaleWorkload", code |-> 400]
            /\ UNCHANGED workloads
       ELSE /\ WorkloadLockFree
            /\ IF workloadID \notin DOMAIN workloads
                 THEN /\ last' = [op |-> "ScaleWorkload", code |-> 404]
                      /\ UNCHANGED workloads
                 ELSE /\ Len(workloads[workloadID].Deployments) + replicas
                           <= MaxDeployments
                      /\ workloads' =
                           [workloads EXCEPT
                              ![workloadID].Replicas = replicas,
                              ![workloadID].Status = WorkloadStatusPending]
                      /\ last' = [op |-> "ScaleWorkload", code |-> 200]
  /\ UNCHANGED <<variant, now, nodes, nodeSeq, workloadSeq, schedVars, crashed, jsVars, inFlight, secVars, jsAppVars,
                 lockVars, procVars>>

(***************************************************************************)
(* Go orchestrator: the scheduler (orchestrator.go).                       *)
(***************************************************************************)
\* nodeMatchesConstraints with a bug that would let a node without the
\* label pass a constraint on that label.
nodeMatchesConstraintsLenient(node, constraints) ==
  \A i \in 1..Len(constraints) :
    LET constraint == constraints[i] IN
      CASE constraint.Key = "region" -> contains(constraint.Values, node.Region)
        [] constraint.Key = "zone" -> contains(constraint.Values, node.Zone)
        [] OTHER -> \/ constraint.Key \notin DOMAIN node.Labels
                    \/ contains(constraint.Values, node.Labels[constraint.Key])

\* nodeMatchesConstraints: every constraint's value list holds the node's
\* region, zone or label of that key; a missing label fails.
nodeMatchesConstraints(node, constraints) ==
  \A i \in 1..Len(constraints) :
    LET constraint == constraints[i] IN
      CASE constraint.Key = "region" -> contains(constraint.Values, node.Region)
        [] constraint.Key = "zone" -> contains(constraint.Values, node.Zone)
        [] OTHER -> /\ constraint.Key \in DOMAIN node.Labels
                    /\ contains(constraint.Values, node.Labels[constraint.Key])

\* The filter without its status test: a bug that would let nodes that are
\* not online become candidates.
EligibleAnyStatus(reg, workload) ==
  { id \in DOMAIN reg :
      nodeMatchesConstraints(reg[id], workload.Placement.Constraints) }

\* The filter of selectNodesForWorkload: the online nodes of the registry
\* that match the workload's constraints.
Eligible(reg, workload) ==
  { id \in DOMAIN reg :
      /\ reg[id].Status = NodeStatusOnline
      /\ nodeMatchesConstraints(reg[id], workload.Placement.Constraints) }

\* int(workload.Replicas), 1 when it is 0.
maxNodesOf(workload) == IF workload.Replicas = 0 THEN 1 ELSE workload.Replicas

\* candidates[:maxNodes] with a negative maxNodes: slice bounds out of range.
selectPanics(candidates, workload) ==
  /\ Len(candidates) # 0
  /\ maxNodesOf(workload) < 0

\* The selection without its truncation: a bug that would place a workload
\* on every candidate.
selectEdgeFirstNodesUntruncated(candidates, workload) ==
  IF Len(candidates) = 0 THEN <<>> ELSE candidates

\* selectEdgeFirstNodes: all candidates when there are at most maxNodes of
\* them, else the first maxNodes.
selectEdgeFirstNodes(candidates, workload) ==
  IF Len(candidates) = 0
    THEN <<>>
    ELSE IF Len(candidates) <= maxNodesOf(workload)
           THEN candidates
           ELSE SubSeq(candidates, 1, maxNodesOf(workload))

\* selectLoadBalancedNodes and selectResourceAwareNodes
selectLoadBalancedNodes(candidates, workload) ==
  selectEdgeFirstNodes(candidates, workload)

selectResourceAwareNodes(candidates, workload) ==
  selectEdgeFirstNodes(candidates, workload)

\* The strategy switch with a load balancing of its own: a change that
\* would take the last maxNodes candidates for that strategy.
applyStrategyBalancing(candidates, workload) ==
  IF /\ workload.Placement.Strategy = PlacementStrategyLoadBalance
     /\ Len(candidates) > maxNodesOf(workload)
    THEN SubSeq(candidates, Len(candidates) - maxNodesOf(workload) + 1,
                Len(candidates))
    ELSE selectEdgeFirstNodes(candidates, workload)

\* The strategy switch of selectNodesForWorkload.
applyStrategy(candidates, workload) ==
  CASE workload.Placement.Strategy = PlacementStrategyEdgeFirst ->
         selectEdgeFirstNodes(candidates, workload)
    [] workload.Placement.Strategy = PlacementStrategyLoadBalance ->
         selectLoadBalancedNodes(candidates, workload)
    [] workload.Placement.Strategy = PlacementStrategyResource ->
         selectResourceAwareNodes(candidates, workload)
    [] OTHER -> selectEdgeFirstNodes(candidates, workload)

\* What the tick does once the range loop is done with a workload: on to the
\* next one, or the lock is released when none is left.
AfterVisit(todo) == IF todo = {} THEN "idle" ELSE "range"

\* scheduleWorkloads, start of a tick: the workload lock is taken and the
\* range loop over the collection begins.
scheduleWorkloads ==
  /\ ~crashed
  /\ schedPc = "idle"
  /\ schedTodo' = DOMAIN workloads
  /\ schedPc' = AfterVisit(DOMAIN workloads)
  /\ last' = [op |-> "scheduleWorkloads", code |-> 0]
  /\ UNCHANGED <<variant, now, nodes, nodeSeq, workloads, workloadSeq, schedCur, schedSel,
                 schedSnap, crashed, jsVars, inFlight, secVars, jsAppVars,
                 lockVars, procVars>>

\* The range loop reaches a workload that is not pending.
SkipWorkload(w) ==
  /\ ~crashed
  /\ schedPc = "range"
  /\ w \in schedTodo
  /\ workloads[w].Status # WorkloadStatusPending
  /\ schedTodo' = schedTodo \ {w}
  /\ schedPc' = AfterVisit(schedTodo')
  /\ last' = [op |-> "skip", code |-> 0]
  /\ UNCHANGED <<variant, now, nodes, nodeSeq, workloads, workloadSeq, schedCur, schedSel,
                 schedSnap, crashed, jsVars, inFlight, secVars, jsAppVars,
                 lockVars, procVars>>

\* The pass with a bug that would give up on a workload without candidates:
\* it is marked failed instead of being left pending.
selectNodesForWorkloadGivingUp(w, candidates) ==
  /\ ~crashed
  /\ schedPc = "range"
  /\ w \in schedTodo
  /\ workloads[w].Status = WorkloadStatusPending
  /\ candidates \in Orderings(Eligible(nodes, workloads[w]))
  /\ schedTodo' = schedTodo \ {w}
  /\ IF Len(candidates) = 0
       THEN /\ workloads' = [workloads EXCEPT ![w].Status = "failed"]
            /\ schedPc' = AfterVisit(schedTodo')
            /\ last' = [op |-> "scheduleWorkload", code |-> 1]
            /\ UNCHANGED <<schedCur, schedSel, schedSnap, crashed>>
       ELSE /\ ~selectPanics(candidates, workloads[w])
            /\ schedPc' = "deploy"
            /\ schedCur' = w
            /\ schedSel' = applyStrategy(candidates, workloads[w])
            /\ schedSnap' = nodes
            /\ last' = [op |-> "selectNodesForWorkload", code |-> 0]
            /\ UNCHANGED <<workloads, crashed>>
  /\ UNCHANGED <<variant, now, nodes, nodeSeq, workloadSeq, jsVars, inFlight, secVars, jsAppVars, lockVars, procVars>>

\* The scheduling of a pending workload without the test len(nodes) == 0 in
\* scheduleWorkload: a bug that would set a workload running on no node.
selectNodesForWorkloadUnchecked(w, candidates) ==
  /\ ~crashed
  /\ schedPc = "range"
  /\ w \in schedTodo
  /\ workloads[w].Status = WorkloadStatusPending
  /\ candidates \in Orderings(Eligible(nodes, workloads[w]))
  /\ schedTodo' = schedTodo \ {w}
  /\ IF selectPanics(candidates, workloads[w])
       THEN /\ crashed' = TRUE
            /\ last' = [op |-> "scheduleWorkload", code |-> 2]
            /\ UNCHANGED <<schedPc, schedCur, schedSel, schedSnap>>
       ELSE /\ schedPc' = "deploy"
            /\ schedCur' = w
            /\ schedSel' = applyStrategy(candidates, workloads[w])
            /\ schedSnap' = nodes
            /\ last' = [op |-> "selectNodesForWorkload", code |-> 0]
            /\ UNCHANGED crashed
  /\ UNCHANGED <<variant, now, nodes, nodeSeq, workloads, workloadSeq, jsVars, inFlight, secVars, jsAppVars,
                 lockVars, procVars>>

\* The range loop reaches a pending workload: selectNodesForWorkload reads
\* the registry under its read lock, in the order the map enumerates it.
\* No node selected is the error of scheduleWorkload, which the loop logs.
selectNodesForWorkload(w, candidates) ==
  /\ ~crashed
  /\ schedPc = "range"
  /\ w \in schedTodo
  /\ workloads[w].Status = WorkloadStatusPending
  /\ candidates \in Orderings(Eligible(nodes, workloads[w]))
  /\ schedTodo' = schedTodo \ {w}
  /\ IF selectPanics(candidates, workloads[w])
       THEN /\ crashed' = TRUE
            /\ last' = [op |-> "scheduleWorkload", code |-> 2]
            /\ UNCHANGED <<schedPc, schedCur, schedSel, schedSnap>>
       ELSE LET selected == applyStrategy(candidates, workloads[w]) IN
            IF Len(selected) = 0
              THEN /\ schedPc' = AfterVisit(schedTodo')
                   /\ last' = [op |-> "scheduleWorkload", code |-> 1]
                   /\ UNCHANGED <<schedCur, schedSel, schedSnap, crashed>>
              ELSE /\ schedPc' = "deploy"
                   /\ schedCur' = w
                   /\ schedSel' = selected
                   /\ schedSnap' = nodes
                   /\ last' = [op |-> "selectNodesForWorkload", code |-> 0]
                   /\ UNCHANGED crashed
  /\ UNCHANGED <<variant, now, nodes, nodeSeq, workloads, workloadSeq, jsVars, inFlight, secVars, jsAppVars,
                 lockVars, procVars>>

\* The records scheduleWorkload appends: one per selected node.
NewDeployments(selected) ==
  [i \in 1..Len(selected) |->
     [NodeID |-> selected[i], Status |-> WorkloadStatusRunning, Replicas |-> 1]]

\* scheduleWorkload with a bug that would stamp UpdatedAt of every node it
\* deploys to.
scheduleWorkloadStampingNodes ==
  /\ ~crashed
  /\ schedPc = "deploy"
  /\ workloads' =
       [workloads EXCEPT
          ![schedCur].Deployments = @ \o NewDeployments(schedSel),
          ![schedCur].Status = WorkloadStatusRunning]
  /\ nodes' = [id \in DOMAIN nodes |->
                 IF contains(schedSel, id)
                   THEN [nodes[id] EXCEPT !.UpdatedAt = now + 1]
                   ELSE nodes[id]]
  /\ schedPc' = AfterVisit(schedTodo)
  /\ schedCur' = 0
  /\ schedSel' = <<>>
  /\ schedSnap' = NoNodes
  /\ last' = [op |-> "scheduleWorkload", code |-> 0]
  /\ UNCHANGED <<variant, now, nodeSeq, workloadSeq, schedTodo, crashed, jsVars, inFlight, secVars, jsAppVars,
                 lockVars, procVars>>

\* scheduleWorkload, after the selection: a record per selected node is
\* appended and the workload is set running.
scheduleWorkload ==
  /\ ~crashed
  /\ schedPc = "deploy"
  /\ workloads' =
       [workloads EXCEPT
          ![schedCur].Deployments = @ \o NewDeployments(schedSel),
          ![schedCur].Status = WorkloadStatusRunning]
  /\ schedPc' = AfterVisit(schedTodo)
  /\ schedCur' = 0
  /\ schedSel' = <<>>
  /\ schedSnap' = NoNodes
  /\ last' = [op |-> "scheduleWorkload", code |-> 0]
  /\ UNCHANGED <<variant, now, nodes, nodeSeq, workloadSeq, schedTodo, crashed, jsVars, inFlight, secVars, jsAppVars,
                 lockVars, procVars>>

(***************************************************************************)
(* The Go orchestrator: request handlers, the scheduling loop, the health  *)
(* sweep and the clock.                                                    *)
(***************************************************************************)
Next ==
  \/ \E region \in RegionInputs : RegisterNode(region, "", NoLabels)
  \/ \E nodeID \in NodeIDs, status \in HeartbeatStatuses :
       NodeHeartbeat(nodeID, status)
  \/ \E nodeID \in NodeIDs : UnregisterNode(nodeID)
  \/ \E replicas \in ReplicaInputs, strategy \in StrategyInputs,
        constraints \in ConstraintInputs :
       /\ workloadSeq < MaxWorkloads
       /\ DeployWorkload(CompleteRequest[1], CompleteRequest[2], CompleteRequest[3],
                         replicas, strategy, constraints)
  \/ \E req \in IncompleteRequests :
       DeployWorkload(req[1], req[2], req[3], 1, "", <<>>)
  \/ ListWorkloads
  \/ \E workloadID \in WorkloadIDs : GetWorkload(workloadID)
  \/ \E workloadID \in WorkloadIDs : DeleteWorkload(workloadID)
  \/ \E workloadID \in WorkloadIDs, replicas \in ReplicaInputs :
       ScaleWorkload(workloadID, replicas)
  \/ scheduleWorkloads
  \/ \E w \in WorkloadIDs : SkipWorkload(w)
  \/ \E w \in WorkloadIDs, candidates \in UNION { Orderings(S) : S \in SUBSET NodeIDs } :
       selectNodesForWorkload(w, candidates)
  \/ scheduleWorkload

Spec == Init /\ [][Next]_vars

(***************************************************************************)
(* JavaScript NodeManager (nodeManager.js).                                *)
(***************************************************************************)
JsNodeIDs == 1..MaxJsNodes

\* The status strings the agents and operators of the Node.js variant send;
\* updateNodeStatus stores whatever it is given.
JsStatusInputs == {"ONLINE", "OFFLINE", "DEGRADED", "MAINTENANCE"}

\* uuidv4(): a value no earlier call returned.
uuidv4(issued) == issued + 1

\* registerNode: a fresh id, status REGISTERED, lastSeen = now.
registerNode ==
  /\ jsSeq < MaxJsNodes
  /\ LET nodeId == uuidv4(jsSeq)
         node == [id |-> nodeId, status |-> "REGISTERED", lastSeen |-> now]
     IN /\ jsNodes' = MapPut(jsNodes, nodeId, node)
        /\ jsSeq' = nodeId
  /\ last' = [op |-> "registerNode", code |-> Returned]
  /\ UNCHANGED <<variant, now, goVars, inFlight, secVars, jsAppVars, lockVars, procVars>>

\* updateNodeStatus: throws for an unknown id, else status and lastSeen are
\* overwritten with the given status and the clock.
updateNodeStatus(nodeId, status) ==
  /\ IF nodeId \notin DOMAIN jsNodes
       THEN /\ last' = [op |-> "updateNodeStatus", code |-> ThrewNotFound]
            /\ UNCHANGED jsNodes
       ELSE /\ jsNodes' = [jsNodes EXCEPT ![nodeId].status = status,
                                          ![nodeId].lastSeen = now]
            /\ last' = [op |-> "updateNodeStatus", code |-> Returned]
  /\ UNCHANGED <<variant, now, goVars, jsSeq, inFlight, secVars, jsAppVars, lockVars, procVars>>

\* removeNode: throws for an unknown id, else the entry is deleted.
removeNode(nodeId) ==
  /\ IF nodeId \notin DOMAIN jsNodes
       THEN /\ last' = [op |-> "removeNode", code |-> ThrewNotFound]
            /\ UNCHANGED jsNodes
       ELSE /\ jsNodes' = MapDelete(jsNodes, nodeId)
            /\ last' = [op |-> "removeNode", code |-> Returned]
  /\ UNCHANGED <<variant, now, goVars, jsSeq, inFlight, secVars, jsAppVars, lockVars, procVars>>

\* The registry after one run of checkNodesHealth at time t: every node not
\* seen for more than five minutes and not OFFLINE is set OFFLINE.
JsSweptRegistry(reg, t) ==
  [id \in DOMAIN reg |->
     IF t - reg[id].lastSeen > JsStaleMinutes
       THEN IF reg[id].status # "OFFLINE"
              THEN [reg[id] EXCEPT !.status = "OFFLINE"]
              ELSE reg[id]
       ELSE reg[id]]

\* checkNodesHealth, run by the cron schedule of startHealthChecker.  The
\* outcome recorded is the number of "marked as OFFLINE" warnings it logged.
checkNodesHealth ==
  /\ jsNodes' = JsSweptRegistry(jsNodes, now)
  /\ last' = [op |-> "checkNodesHealth",
              code |-> Cardinality({ id \in DOMAIN jsNodes :
                                       jsNodes'[id].status # jsNodes[id].status })]
  /\ UNCHANGED <<variant, now, goVars, jsSeq, inFlight, secVars, jsAppVars, lockVars, procVars>>

(***************************************************************************)
(* The node registry of either implementation with its health sweep and    *)
(* the clock.  The implementation is chosen at start.                      *)
(***************************************************************************)
InitRegistry ==
  /\ variant \in {"go", "js"}
  /\ Start

Go == variant = "go"
Js == variant = "js"

NextRegistry ==
  \/ Go /\ RegisterNode("", "", NoLabels)
  \/ Go /\ \E nodeID \in NodeIDs, status \in HeartbeatStatuses :
             NodeHeartbeat(nodeID, status)
  \/ Go /\ \E nodeID \in NodeIDs : UnregisterNode(nodeID)
  \/ Go /\ \E nodeID \in NodeIDs : GetNode(nodeID)
  \/ Go /\ checkNodeHealth
  \/ Go /\ AdvanceTime(MaxTime)
  \/ Js /\ registerNode
  \/ Js /\ \E nodeId \in JsNodeIDs, status \in JsStatusInputs :
             updateNodeStatus(nodeId, status)
  \/ Js /\ \E nodeId \in JsNodeIDs : removeNode(nodeId)
  \/ Js /\ checkNodesHealth
  \/ Js /\ AdvanceTime(MaxJsTime)

SpecRegistry == InitRegistry /\ [][NextRegistry]_vars

(***************************************************************************)
(* The registries with heartbeats and status updates that carry any        *)
(* status: NodeStatus is a string type and HeartbeatRequest.Status has no  *)
(* binding, updateNodeStatus takes whatever it is given.                   *)
(***************************************************************************)
\* The values of the NodeStatus constants, and the status strings of the
\* Node.js variant.
NodeStatuses ==
  {NodeStatusOnline, NodeStatusOffline, NodeStatusDegraded, NodeStatusMaintenance}
JsNodeStatuses == {"REGISTERED", "ONLINE", "OFFLINE", "DEGRADED", "MAINTENANCE"}

\* A status that is absent from the request ("" after binding), and a
\* string that is no status.
ArbitraryStatuses == {"", "rebooting"}

NextStatus ==
  \/ Go /\ RegisterNode("", "", NoLabels)
  \/ Go /\ \E nodeID \in NodeIDs, status \in NodeStatuses \cup ArbitraryStatuses :
             NodeHeartbeat(nodeID, status)
  \/ Go /\ \E nodeID \in NodeIDs : UnregisterNode(nodeID)
  \/ Go /\ checkNodeHealth
  \/ Go /\ AdvanceTime(MaxRegisterTime)
  \/ Js /\ registerNode
  \/ Js /\ \E nodeId \in JsNodeIDs, status \in JsStatusInputs \cup ArbitraryStatuses :
             updateNodeStatus(nodeId, status)
  \/ Js /\ \E nodeId \in JsNodeIDs : removeNode(nodeId)
  \/ Js /\ checkNodesHealth
  \/ Js /\ AdvanceTime(MaxJsTime)

SpecStatus == InitRegistry /\ [][NextStatus]_vars

(***************************************************************************)
(* Concurrent registration.  RegisterNode draws the id and builds the node *)
(* before it takes the registry's lock, so two requests can be between     *)
(* the two steps at the same time.                                         *)
(***************************************************************************)
HandlerIDs == 1..MaxHandlers

\* RegisterNode with a bug that would leave the heartbeat time at its zero
\* value instead of the time of the registration.
RegisterNodeBuildUnstamped(h, region, zone, labels) ==
  /\ ~crashed
  /\ h \notin DOMAIN inFlight
  /\ nodeSeq < MaxNodes
  /\ LET nodeID == generateID(nodeSeq)
         node == [ID |-> nodeID,
                  Status |-> NodeStatusOnline,
                  LastHeartbeat |-> 0,
                  UpdatedAt |-> now,
                  Region |-> IF region = "" THEN "default" ELSE region,
                  Zone |-> IF zone = "" THEN "default" ELSE zone,
                  Labels |-> labels]
     IN /\ inFlight' = MapPut(inFlight, h, [now |-> now, node |-> node])
        /\ nodeSeq' = nodeID
  /\ UNCHANGED <<variant, now, nodes, workloads, workloadSeq, schedVars, crashed,
                 last, jsVars, secVars, jsAppVars, lockVars, procVars>>

\* RegisterNode up to the lock: the request is bound, generateID and
\* time.Now() are called and the node is built with its defaults.
RegisterNodeBuild(h, region, zone, labels) ==
  /\ ~crashed
  /\ h \notin DOMAIN inFlight
  /\ nodeSeq < MaxNodes
  /\ LET nodeID == generateID(nodeSeq)
         node == [ID |-> nodeID,
                  Status |-> NodeStatusOnline,
                  LastHeartbeat |-> now,
                  UpdatedAt |-> now,
                  Region |-> IF region = "" THEN "default" ELSE region,
                  Zone |-> IF zone = "" THEN "default" ELSE zone,
                  Labels |-> labels]
     IN /\ inFlight' = MapPut(inFlight, h, [now |-> now, node |-> node])
        /\ nodeSeq' = nodeID
  /\ UNCHANGED <<variant, now, nodes, workloads, workloadSeq, schedVars, crashed,
                 last, jsVars, secVars, jsAppVars, lockVars, procVars>>

\* RegisterNode from the lock on: the node is stored under its id and the
\* request answered with 201.
RegisterNodeInsert(h) ==
  /\ ~crashed
  /\ h \in DOMAIN inFlight
  /\ nodes' = MapPut(nodes, inFlight[h].node.ID, inFlight[h].node)
  /\ inFlight' = MapDelete(inFlight, h)
  /\ last' = [op |-> "RegisterNode", code |-> 201]
  /\ UNCHANGED <<variant, now, nodeSeq, workloads, workloadSeq, schedVars, crashed,
                 jsVars, secVars, jsAppVars, lockVars, procVars>>

\* ListNodes: reads the registry.
ListNodes ==
  /\ ~crashed
  /\ last' = [op |-> "ListNodes", code |-> 200]
  /\ UNCHANGED <<variant, now, goVars, jsVars, inFlight, secVars, jsAppVars, lockVars, procVars>>

\* getNode of the NodeManager: the node, or undefined for an unknown id,
\* which the route answers with 404.
getNode(nodeId) ==
  /\ last' = [op |-> "getNode",
              code |-> IF nodeId \in DOMAIN jsNodes THEN 200 ELSE 404]
  /\ UNCHANGED <<variant, now, goVars, jsVars, inFlight, secVars, jsAppVars, lockVars, procVars>>

\* getAllNodes of the NodeManager: reads the registry.
getAllNodes ==
  /\ last' = [op |-> "getAllNodes", code |-> 200]
  /\ UNCHANGED <<variant, now, goVars, jsVars, inFlight, secVars, jsAppVars, lockVars, procVars>>

\* Registration in either implementation with the operations that read the
\* registry: get, list and the scheduling loop.
NextRegister ==
  \/ Go /\ \E h \in HandlerIDs, region \in RegionInputs :
             RegisterNodeBuild(h, region, "", NoLabels)
  \/ Go /\ \E h \in HandlerIDs : RegisterNodeInsert(h)
  \/ Go /\ \E nodeID \in NodeIDs : NodeHeartbeat(nodeID, NodeStatusDegraded)
  \/ Go /\ \E nodeID \in NodeIDs : UnregisterNode(nodeID)
  \/ Go /\ \E nodeID \in NodeIDs : GetNode(nodeID)
  \/ Go /\ ListNodes
  \/ Go /\ checkNodeHealth
  \/ Go /\ AdvanceTime(MaxRegisterTime)
  \/ Go /\ \E constraints \in ConstraintInputs :
             /\ workloadSeq < MaxWorkloads
             /\ DeployWorkload(CompleteRequest[1], CompleteRequest[2],
                               CompleteRequest[3], MaxReplicas, "", constraints)
  \/ Go /\ scheduleWorkloads
  \/ Go /\ \E w \in WorkloadIDs : SkipWorkload(w)
  \/ Go /\ \E w \in WorkloadIDs,
              candidates \in UNION { Orderings(S) : S \in SUBSET NodeIDs } :
             selectNodesForWorkload(w, candidates)
  \/ Go /\ scheduleWorkload
  \/ Js /\ registerNode
  \/ Js /\ \E nodeId \in JsNodeIDs : updateNodeStatus(nodeId, "DEGRADED")
  \/ Js /\ \E nodeId \in JsNodeIDs : removeNode(nodeId)
  \/ Js /\ \E nodeId \in JsNodeIDs : getNode(nodeId)
  \/ Js /\ getAllNodes
  \/ Js /\ checkNodesHealth
  \/ Js /\ AdvanceTime(MaxJsTime)

SpecRegister == InitRegistry /\ [][NextRegister]_vars

(***************************************************************************)
(* The two collections of the Go orchestrator with the handlers that       *)
(* remove from them, for a workload collection of more than one entry.     *)
(***************************************************************************)
StoredWorkloadIDs == 1..MaxStoredWorkloads

\* ScaleWorkloadRequest.Replicas: absent or zero, and a count.
ScaleInputs == {0, 1}

NextCollections ==
  \/ RegisterNode("", "", NoLabels)
  \/ \E nodeID \in NodeIDs : UnregisterNode(nodeID)
  \/ /\ workloadSeq < MaxStoredWorkloads
     /\ DeployWorkload(CompleteRequest[1], CompleteRequest[2], CompleteRequest[3],
                       1, "", <<>>)
  \/ \E workloadID \in StoredWorkloadIDs : DeleteWorkload(workloadID)
  \/ \E workloadID \in StoredWorkloadIDs, replicas \in ScaleInputs :
       ScaleWorkload(workloadID, replicas)
  \/ scheduleWorkloads
  \/ \E w \in StoredWorkloadIDs : SkipWorkload(w)
  \/ \E w \in StoredWorkloadIDs,
        candidates \in UNION { Orderings(S) : S \in SUBSET NodeIDs } :
       selectNodesForWorkload(w, candidates)
  \/ scheduleWorkload

SpecCollections == Init /\ [][NextCollections]_vars

(***************************************************************************)
(* The Go orchestrator with every workload handler and the scheduling      *)
(* loop, for a workload collection of more than one entry.                 *)
(***************************************************************************)
\* ScaleWorkloadRequest.Replicas of the requests that rescale a workload.
RescaleInputs == {1, MaxReplicas}

NextWorkloads ==
  \/ RegisterNode("", "", NoLabels)
  \/ \E nodeID \in NodeIDs : UnregisterNode(nodeID)
  \/ /\ workloadSeq < MaxStoredWorkloads
     /\ DeployWorkload(CompleteRequest[1], CompleteRequest[2], CompleteRequest[3],
                       1, "", <<>>)
  \/ ListWorkloads
  \/ \E workloadID \in StoredWorkloadIDs : GetWorkload(workloadID)
  \/ \E workloadID \in StoredWorkloadIDs : DeleteWorkload(workloadID)
  \/ \E workloadID \in StoredWorkloadIDs, replicas \in RescaleInputs :
       ScaleWorkload(workloadID, replicas)
  \/ scheduleWorkloads
  \/ \E w \in StoredWorkloadIDs : SkipWorkload(w)
  \/ \E w \in StoredWorkloadIDs,
        candidates \in UNION { Orderings(S) : S \in SUBSET NodeIDs } :
       selectNodesForWorkload(w, candidates)
  \/ scheduleWorkload

SpecWorkloads == Init /\ [][NextWorkloads]_vars

(***************************************************************************)
(* The Go orchestrator with the operations on workloads next to the        *)
(* operations on nodes: heartbeats, the health sweep and the clock.        *)
(***************************************************************************)
NextFrame ==
  \/ RegisterNode("", "", NoLabels)
  \/ \E nodeID \in NodeIDs : NodeHeartbeat(nodeID, NodeStatusDegraded)
  \/ \E nodeID \in NodeIDs : UnregisterNode(nodeID)
  \/ checkNodeHealth
  \/ AdvanceTime(MaxRegisterTime)
  \/ /\ workloadSeq < MaxWorkloads
     /\ DeployWorkload(CompleteRequest[1], CompleteRequest[2], CompleteRequest[3],
                       1, "", <<>>)
  \/ ListWorkloads
  \/ \E workloadID \in WorkloadIDs : GetWorkload(workloadID)
  \/ \E workloadID \in WorkloadIDs : DeleteWorkload(workloadID)
  \/ \E workloadID \in WorkloadIDs : ScaleWorkload(workloadID, MaxReplicas)
  \/ scheduleWorkloads
  \/ \E w \in WorkloadIDs : SkipWorkload(w)
  \/ \E w \in WorkloadIDs,
        candidates \in UNION { Orderings(S) : S \in SUBSET NodeIDs } :
       selectNodesForWorkload(w, candidates)
  \/ scheduleWorkload

SpecFrame == Init /\ [][NextFrame]_vars

\* A step of the workload scheduler's pass.
Tick ==
  \/ scheduleWorkloads
  \/ \E w \in WorkloadIDs : SkipWorkload(w)
  \/ \E w \in WorkloadIDs,
        candidates \in UNION { Orderings(S) : S \in SUBSET NodeIDs } :
       selectNodesForWorkload(w, candidates)
  \/ scheduleWorkload

\* The two tickers keep firing: the health checker every 30 seconds and the
\* scheduler every 10 seconds, each in a goroutine of its own that nothing
\* stops.  Requests come when clients send them.
SpecReconcile ==
  /\ Init
  /\ [][NextFrame]_vars
  /\ WF_vars(checkNodeHealth)
  /\ WF_vars(Tick)

\* Requests that register, revive, stop and remove nodes, and that create,
\* rescale and delete the workload, around the scheduler's passes.
NextSchedule ==
  \/ \E region \in RegionInputs : RegisterNode(region, "", NoLabels)
  \/ \E nodeID \in NodeIDs, status \in {NodeStatusOnline, NodeStatusOffline} :
       NodeHeartbeat(nodeID, status)
  \/ \E nodeID \in NodeIDs : UnregisterNode(nodeID)
  \/ \E replicas \in ReplicaInputs, constraints \in ConstraintInputs :
       /\ workloadSeq < MaxWorkloads
       /\ DeployWorkload(CompleteRequest[1], CompleteRequest[2], CompleteRequest[3],
                         replicas, "", constraints)
  \/ \E workloadID \in WorkloadIDs : DeleteWorkload(workloadID)
  \/ \E workloadID \in WorkloadIDs, replicas \in ReplicaInputs :
       ScaleWorkload(workloadID, replicas)
  \/ Tick

\* The scheduler's ticker keeps firing every 10 seconds for as long as the
\* process runs.
SpecSchedule ==
  /\ Init
  /\ [][NextSchedule]_vars
  /\ WF_vars(Tick)

(***************************************************************************)
(* nodeMatchesConstraints on the nodes and constraint lists that requests  *)
(* can bring into the collections.                                         *)
(***************************************************************************)
\* NodeRegistrationRequest.Zone and .Labels; "" is an absent zone.
ZoneInputs == {"", "a"}
LabelInputs == {NoLabels, [key \in {"tier"} |-> "gpu"]}

\* PlacementConstraint.Key, .Operator and .Values.
KeyInputs == {"region", "zone", "tier"}
OperatorInputs == {"In", "NotIn"}
ValueInputs == {<<>>, <<"eu">>, <<"default", "gpu">>}
ConstraintRecords ==
  [Key : KeyInputs, Operator : OperatorInputs, Values : ValueInputs]

\* The constraint lists of up to two constraints.
ConstraintLists ==
  {<<>>} \cup { <<c>> : c \in ConstraintRecords }
         \cup { <<c, d>> : c \in ConstraintRecords, d \in ConstraintRecords }

\* selectNodesForWorkload calls nodeMatchesConstraints for a node and the
\* constraints of a workload; last.code is 1 for true and 0 for false.
MatchNode(nodeID, w) ==
  /\ nodeID \in DOMAIN nodes
  /\ w \in DOMAIN workloads
  /\ last' = [op |-> "nodeMatchesConstraints",
              code |-> IF nodeMatchesConstraints(nodes[nodeID],
                                                 workloads[w].Placement.Constraints)
                         THEN 1 ELSE 0]
  /\ UNCHANGED <<variant, now, goVars, jsVars, inFlight, secVars, jsAppVars,
                 lockVars, procVars>>

NextConstraints ==
  \/ \E region \in RegionInputs, zone \in ZoneInputs, labels \in LabelInputs :
       RegisterNode(region, zone, labels)
  \/ \E constraints \in ConstraintLists :
       /\ workloadSeq < MaxWorkloads
       /\ DeployWorkload(CompleteRequest[1], CompleteRequest[2], CompleteRequest[3],
                         1, "", constraints)
  \/ \E nodeID \in NodeIDs, w \in WorkloadIDs : MatchNode(nodeID, w)

SpecConstraints == Init /\ [][NextConstraints]_vars

(***************************************************************************)
(* The scheduler on workloads of every placement strategy.                 *)
(***************************************************************************)
\* PlacementPolicy.Strategy: the five strategies, a string that is none of
\* them, and "" for an absent strategy.
AllStrategyInputs ==
  {PlacementStrategyEdgeFirst, PlacementStrategyCloudFirst,
   PlacementStrategyLoadBalance, PlacementStrategyLatency,
   PlacementStrategyResource, "spread", ""}

NextStrategies ==
  \/ RegisterNode("", "", NoLabels)
  \/ \E nodeID \in NodeIDs, status \in {NodeStatusOnline, NodeStatusOffline} :
       NodeHeartbeat(nodeID, status)
  \/ \E replicas \in ReplicaInputs, strategy \in AllStrategyInputs :
       /\ workloadSeq < MaxWorkloads
       /\ DeployWorkload(CompleteRequest[1], CompleteRequest[2], CompleteRequest[3],
                         replicas, strategy, <<>>)
  \/ \E workloadID \in WorkloadIDs, replicas \in ReplicaInputs :
       ScaleWorkload(workloadID, replicas)
  \/ scheduleWorkloads
  \/ \E w \in WorkloadIDs : SkipWorkload(w)
  \/ \E w \in WorkloadIDs,
        candidates \in UNION { Orderings(S) : S \in SUBSET NodeIDs } :
       selectNodesForWorkload(w, candidates)
  \/ scheduleWorkload

SpecStrategies == Init /\ [][NextStrategies]_vars

(***************************************************************************)
(* Shutdown of the Go orchestrator (main).                                 *)
(***************************************************************************)
\* main receives SIGINT or SIGTERM from the quit channel and calls
\* server.Shutdown, which waits up to 30 seconds for the requests in
\* progress.
Interrupt ==
  /\ mainPc = "serving"
  /\ mainPc' = "shutdown"
  /\ UNCHANGED <<variant, now, goVars, last, jsVars, inFlight, secVars, jsAppVars,
                 lockVars, metricsLock, collectPc, collected, metrics, handlerPcs>>

\* server.Shutdown returns and main returns: the process ends, and with it
\* every goroutine, wherever it is.
Exit ==
  /\ mainPc = "shutdown"
  /\ mainPc' = "exited"
  /\ UNCHANGED <<variant, now, goVars, last, jsVars, inFlight, secVars, jsAppVars,
                 lockVars, metricsLock, collectPc, collected, metrics, handlerPcs>>

\* The process runs until main returns.  Requests are served until then
\* (those that arrived before the listeners were closed), and the health
\* checker and the scheduler run in their goroutines.
NextShutdown ==
  \/ Interrupt
  \/ Exit
  \/ mainPc # "exited" /\ RegisterNode("", "", NoLabels)
  \/ \E nodeID \in NodeIDs :
       mainPc # "exited" /\ NodeHeartbeat(nodeID, NodeStatusOnline)
  \/ /\ mainPc # "exited"
     /\ workloadSeq < MaxWorkloads
     /\ DeployWorkload(CompleteRequest[1], CompleteRequest[2], CompleteRequest[3],
                       1, "", <<>>)
  \/ \E workloadID \in WorkloadIDs :
       mainPc # "exited" /\ ScaleWorkload(workloadID, MaxReplicas)
  \/ mainPc # "exited" /\ checkNodeHealth
  \/ mainPc # "exited" /\ scheduleWorkloads
  \/ \E w \in WorkloadIDs : mainPc # "exited" /\ SkipWorkload(w)
  \/ \E w \in WorkloadIDs,
        candidates \in UNION { Orderings(S) : S \in SUBSET NodeIDs } :
       mainPc # "exited" /\ selectNodesForWorkload(w, candidates)
  \/ mainPc # "exited" /\ scheduleWorkload
  \/ mainPc # "exited" /\ AdvanceTime(MaxRegisterTime)

SpecShutdown == Init /\ [][NextShutdown]_vars

(***************************************************************************)
(* The locks of the Go orchestrator.  The health checker, the scheduler, a *)
(* ListNodes handler and a NodeHeartbeat handler are followed from one     *)
(* lock operation to the next; the other handlers take and release their   *)
(* lock within one step.                                                   *)
(***************************************************************************)
\* What the statement-by-statement steps leave alone.
otherVars ==
  <<variant, nodeSeq, workloadSeq, crashed, jsVars, inFlight, secVars, jsAppVars, procVars>>

\* sync.RWMutex: Lock returns when no thread holds the mutex, RLock when no
\* thread holds it exclusively.
CanLock(mutex) == mutex.readers = {} /\ mutex.writer = "none"
CanRLock(mutex) == mutex.writer = "none"

RLocked(mutex, t) == [mutex EXCEPT !.readers = @ \cup {t}]
RUnlocked(mutex, t) == [mutex EXCEPT !.readers = @ \ {t}]
Locked(mutex, t) == [mutex EXCEPT !.writer = t]

\* checkNodeHealth: co.NodeManager.mutex.RLock(), and the range loop begins.
checkNodeHealthRLock ==
  /\ pcs["sweep"] = "idle"
  /\ CanRLock(nodeLock)
  /\ nodeLock' = RLocked(nodeLock, "sweep")
  /\ sweepTodo' = DOMAIN nodes
  /\ pcs' = [pcs EXCEPT !["sweep"] = "range"]
  /\ UNCHANGED <<now, nodes, workloads, schedVars, last, otherVars, workloadLock,
                 sweepCur, hbCur>>

\* The range loop of checkNodeHealth reaches a node and tests its heartbeat
\* and its status.
checkNodeHealthVisit(nodeID) ==
  /\ pcs["sweep"] = "range"
  /\ nodeID \in sweepTodo
  /\ sweepTodo' = sweepTodo \ {nodeID}
  /\ IF /\ now - nodes[nodeID].LastHeartbeat > GoStaleMinutes
        /\ nodes[nodeID].Status # NodeStatusOffline
       THEN /\ sweepCur' = nodeID
            /\ pcs' = [pcs EXCEPT !["sweep"] = "mark"]
       ELSE UNCHANGED <<sweepCur, pcs>>
  /\ UNCHANGED <<now, nodes, workloads, schedVars, last, otherVars, nodeLock,
                 workloadLock, hbCur>>

\* checkNodeHealth writes node.Status and node.UpdatedAt of the stale node.
checkNodeHealthMark ==
  /\ pcs["sweep"] = "mark"
  /\ nodes' = [nodes EXCEPT ![sweepCur].Status = NodeStatusOffline,
                            ![sweepCur].UpdatedAt = now]
  /\ sweepCur' = 0
  /\ pcs' = [pcs EXCEPT !["sweep"] = "range"]
  /\ last' = [op |-> "checkNodeHealth", code |-> 1]
  /\ UNCHANGED <<now, workloads, schedVars, otherVars, nodeLock, workloadLock,
                 sweepTodo, hbCur>>

\* checkNodeHealth returns: the deferred RUnlock.
checkNodeHealthRUnlock ==
  /\ pcs["sweep"] = "range"
  /\ sweepTodo = {}
  /\ nodeLock' = RUnlocked(nodeLock, "sweep")
  /\ pcs' = [pcs EXCEPT !["sweep"] = "idle"]
  /\ UNCHANGED <<now, nodes, workloads, schedVars, last, otherVars, workloadLock,
                 sweepTodo, sweepCur, hbCur>>

\* ListNodes: co.NodeManager.mutex.RLock().
ListNodesRLock ==
  /\ pcs["list"] = "idle"
  /\ CanRLock(nodeLock)
  /\ nodeLock' = RLocked(nodeLock, "list")
  /\ pcs' = [pcs EXCEPT !["list"] = "read"]
  /\ UNCHANGED <<now, nodes, workloads, schedVars, last, otherVars, workloadLock,
                 sweepTodo, sweepCur, hbCur>>

\* ListNodes collects the nodes, c.JSON writes their fields to the answer,
\* and the deferred RUnlock runs.
ListNodesRUnlock ==
  /\ pcs["list"] = "read"
  /\ nodeLock' = RUnlocked(nodeLock, "list")
  /\ pcs' = [pcs EXCEPT !["list"] = "idle"]
  /\ last' = [op |-> "ListNodes", code |-> 200]
  /\ UNCHANGED <<now, nodes, workloads, schedVars, otherVars, workloadLock,
                 sweepTodo, sweepCur, hbCur>>

\* A NodeHeartbeat that would wait for writers only, as if it took the read
\* lock: it can enter while the health checker is in its loop.
NodeHeartbeatLockAmongReaders(nodeID) ==
  /\ pcs["heartbeat"] = "idle"
  /\ CanRLock(nodeLock)
  /\ nodeLock' = Locked(nodeLock, "heartbeat")
  /\ hbCur' = nodeID
  /\ pcs' = [pcs EXCEPT !["heartbeat"] = "write"]
  /\ UNCHANGED <<now, nodes, workloads, schedVars, last, otherVars, workloadLock,
                 sweepTodo, sweepCur>>

\* NodeHeartbeat: co.NodeManager.mutex.Lock().
NodeHeartbeatLock(nodeID) ==
  /\ pcs["heartbeat"] = "idle"
  /\ CanLock(nodeLock)
  /\ nodeLock' = Locked(nodeLock, "heartbeat")
  /\ hbCur' = nodeID
  /\ pcs' = [pcs EXCEPT !["heartbeat"] = "write"]
  /\ UNCHANGED <<now, nodes, workloads, schedVars, last, otherVars, workloadLock,
                 sweepTodo, sweepCur>>

\* NodeHeartbeat looks the node up and writes its status and times.
NodeHeartbeatWrite(status) ==
  /\ pcs["heartbeat"] = "write"
  /\ IF hbCur \notin DOMAIN nodes
       THEN /\ last' = [op |-> "NodeHeartbeat", code |-> 404]
            /\ UNCHANGED nodes
       ELSE /\ nodes' = [nodes EXCEPT ![hbCur].Status = status,
                                      ![hbCur].LastHeartbeat = now,
                                      ![hbCur].UpdatedAt = now]
            /\ last' = [op |-> "NodeHeartbeat", code |-> 200]
  /\ pcs' = [pcs EXCEPT !["heartbeat"] = "unlock"]
  /\ UNCHANGED <<now, workloads, schedVars, otherVars, nodeLock, workloadLock,
                 sweepTodo, sweepCur, hbCur>>

\* NodeHeartbeat returns: the deferred Unlock.
NodeHeartbeatUnlock ==
  /\ pcs["heartbeat"] = "unlock"
  /\ nodeLock' = [nodeLock EXCEPT !.writer = "none"]
  /\ hbCur' = 0
  /\ pcs' = [pcs EXCEPT !["heartbeat"] = "idle"]
  /\ UNCHANGED <<now, nodes, workloads, schedVars, last, otherVars, workloadLock,
                 sweepTodo, sweepCur>>

\* scheduleWorkloads: co.WorkloadManager.mutex.Lock(), and the range loop
\* begins.
scheduleWorkloadsLock ==
  /\ schedPc = "idle"
  /\ CanLock(workloadLock)
  /\ workloadLock' = Locked(workloadLock, "sched")
  /\ schedTodo' = DOMAIN workloads
  /\ schedPc' = "range"
  /\ UNCHANGED <<now, nodes, workloads, schedCur, schedSel, schedSnap, last,
                 otherVars, nodeLock, pcs, sweepTodo, sweepCur, hbCur>>

\* The range loop of scheduleWorkloads reaches a workload that is not
\* pending.
scheduleWorkloadsSkip(w) ==
  /\ schedPc = "range"
  /\ w \in schedTodo
  /\ workloads[w].Status # WorkloadStatusPending
  /\ schedTodo' = schedTodo \ {w}
  /\ UNCHANGED <<now, nodes, workloads, schedPc, schedCur, schedSel, schedSnap, last,
                 otherVars, lockVars>>

\* The range loop reaches a pending workload: scheduleWorkload calls
\* selectNodesForWorkload, which begins with co.NodeManager.mutex.RLock().
selectNodesForWorkloadRLock(w) ==
  /\ schedPc = "range"
  /\ w \in schedTodo
  /\ workloads[w].Status = WorkloadStatusPending
  /\ CanRLock(nodeLock)
  /\ nodeLock' = RLocked(nodeLock, "sched")
  /\ schedTodo' = schedTodo \ {w}
  /\ schedCur' = w
  /\ schedPc' = "select"
  /\ UNCHANGED <<now, nodes, workloads, schedSel, schedSnap, last, otherVars,
                 workloadLock, pcs, sweepTodo, sweepCur, hbCur>>

\* selectNodesForWorkload filters the registry and applies the strategy.
\* The replica counts of this specification are positive.
selectNodesForWorkloadRead(candidates) ==
  /\ schedPc = "select"
  /\ candidates \in Orderings(Eligible(nodes, workloads[schedCur]))
  /\ schedSel' = applyStrategy(candidates, workloads[schedCur])
  /\ schedSnap' = nodes
  /\ schedPc' = "selected"
  /\ UNCHANGED <<now, nodes, workloads, schedTodo, schedCur, last, otherVars, lockVars>>

\* selectNodesForWorkload returns: the deferred RUnlock.
selectNodesForWorkloadRUnlock ==
  /\ schedPc = "selected"
  /\ nodeLock' = RUnlocked(nodeLock, "sched")
  /\ schedPc' = "deploy"
  /\ UNCHANGED <<now, nodes, workloads, schedTodo, schedCur, schedSel, schedSnap, last,
                 otherVars, workloadLock, pcs, sweepTodo, sweepCur, hbCur>>

\* scheduleWorkload after the selection: the error when no node is
\* selected, else the records are appended and the workload is set running.
scheduleWorkloadAppend ==
  /\ schedPc = "deploy"
  /\ IF Len(schedSel) = 0
       THEN /\ last' = [op |-> "scheduleWorkload", code |-> 1]
            /\ UNCHANGED workloads
       ELSE /\ workloads' =
                 [workloads EXCEPT
                    ![schedCur].Deployments = @ \o NewDeployments(schedSel),
                    ![schedCur].Status = WorkloadStatusRunning]
            /\ last' = [op |-> "scheduleWorkload", code |-> 0]
  /\ schedCur' = 0
  /\ schedSel' = <<>>
  /\ schedSnap' = NoNodes
  /\ schedPc' = "range"
  /\ UNCHANGED <<now, nodes, schedTodo, otherVars, lockVars>>

\* scheduleWorkloads returns: the deferred Unlock.
scheduleWorkloadsUnlock ==
  /\ schedPc = "range"
  /\ schedTodo = {}
  /\ workloadLock' = Unlocked
  /\ schedPc' = "idle"
  /\ UNCHANGED <<now, nodes, workloads, schedTodo, schedCur, schedSel, schedSnap, last,
                 otherVars, nodeLock, pcs, sweepTodo, sweepCur, hbCur>>

NextLocks ==
  \/ CanLock(nodeLock) /\ RegisterNode("", "", NoLabels)
  \/ \E nodeID \in NodeIDs : CanLock(nodeLock) /\ UnregisterNode(nodeID)
  \/ checkNodeHealthRLock
  \/ \E nodeID \in NodeIDs : checkNodeHealthVisit(nodeID)
  \/ checkNodeHealthMark
  \/ checkNodeHealthRUnlock
  \/ ListNodesRLock
  \/ ListNodesRUnlock
  \/ \E nodeID \in NodeIDs : NodeHeartbeatLock(nodeID)
  \/ NodeHeartbeatWrite(NodeStatusOnline)
  \/ NodeHeartbeatUnlock
  \/ /\ workloadSeq < MaxWorkloads
     /\ CanLock(workloadLock)
     /\ DeployWorkload(CompleteRequest[1], CompleteRequest[2], CompleteRequest[3],
                       1, "", <<>>)
  \/ scheduleWorkloadsLock
  \/ \E w \in WorkloadIDs : scheduleWorkloadsSkip(w)
  \/ \E w \in WorkloadIDs : selectNodesForWorkloadRLock(w)
  \/ \E candidates \in UNION { Orderings(S) : S \in SUBSET NodeIDs } :
       selectNodesForWorkloadRead(candidates)
  \/ selectNodesForWorkloadRUnlock
  \/ scheduleWorkloadAppend
  \/ scheduleWorkloadsUnlock
  \/ AdvanceTime(MaxRegisterTime)

SpecLocks == Init /\ [][NextLocks]_vars

(***************************************************************************)
(* The three locks of the Go orchestrator with the metrics collector, and  *)
(* with writers that wait.  A goroutine that has called Lock on a          *)
(* sync.RWMutex and waits for the readers to leave keeps later RLock calls *)
(* waiting until it has had the lock.                                      *)
(***************************************************************************)
\* A goroutine has called Lock on the mutex of the node collection, of the
\* workload collection or of the monitoring service, and waits.
NodeWriterWaits == pcs["heartbeat"] = "lock"
WorkloadWriterWaits == schedPc = "lock"
MetricsWriterWaits == collectPc = "lock"

\* NodeHeartbeat calls co.NodeManager.mutex.Lock().
NodeHeartbeatLockCall(nodeID) ==
  /\ pcs["heartbeat"] = "idle"
  /\ hbCur' = nodeID
  /\ pcs' = [pcs EXCEPT !["heartbeat"] = "lock"]
  /\ UNCHANGED <<now, nodes, workloads, schedVars, last, otherVars, nodeLock,
                 workloadLock, sweepTodo, sweepCur>>

\* The Lock call of NodeHeartbeat returns.
NodeHeartbeatLockReturn ==
  /\ pcs["heartbeat"] = "lock"
  /\ CanLock(nodeLock)
  /\ nodeLock' = Locked(nodeLock, "heartbeat")
  /\ pcs' = [pcs EXCEPT !["heartbeat"] = "write"]
  /\ UNCHANGED <<now, nodes, workloads, schedVars, last, otherVars, workloadLock,
                 sweepTodo, sweepCur, hbCur>>

\* scheduleWorkloads calls co.WorkloadManager.mutex.Lock().
scheduleWorkloadsLockCall ==
  /\ schedPc = "idle"
  /\ schedPc' = "lock"
  /\ UNCHANGED <<now, nodes, workloads, schedTodo, schedCur, schedSel, schedSnap, last,
                 otherVars, lockVars>>

\* The Lock call of scheduleWorkloads returns, and the range loop begins.
scheduleWorkloadsLockReturn ==
  /\ schedPc = "lock"
  /\ CanLock(workloadLock)
  /\ workloadLock' = Locked(workloadLock, "sched")
  /\ schedTodo' = DOMAIN workloads
  /\ schedPc' = "range"
  /\ UNCHANGED <<now, nodes, workloads, schedCur, schedSel, schedSnap, last,
                 otherVars, nodeLock, pcs, sweepTodo, sweepCur, hbCur>>

\* What the steps of collectMetrics and of the reading handlers leave alone.
collectorFrame ==
  <<variant, now, nodes, nodeSeq, workloads, workloadSeq, schedVars, crashed, last,
    jsVars, inFlight, secVars, jsAppVars, pcs, sweepTodo, sweepCur, hbCur, mainPc>>

\* collectMetrics calls co.MonitoringService.mutex.Lock().
collectMetricsLockCall ==
  /\ collectPc = "idle"
  /\ collectPc' = "lock"
  /\ UNCHANGED <<collectorFrame, nodeLock, workloadLock, metricsLock, collected,
                 metrics, handlerPcs>>

\* The Lock call of collectMetrics returns.
collectMetricsLockReturn ==
  /\ collectPc = "lock"
  /\ CanLock(metricsLock)
  /\ metricsLock' = Locked(metricsLock, "collect")
  /\ collected' = NoCounts
  /\ collectPc' = "nodeCount"
  /\ UNCHANGED <<collectorFrame, nodeLock, workloadLock, metrics, handlerPcs>>

\* nodeCount := len(co.NodeManager.nodes), read without the node lock.
collectMetricsNodeCount ==
  /\ collectPc = "nodeCount"
  /\ collected' = [collected EXCEPT !.nodeCount = Cardinality(DOMAIN nodes)]
  /\ collectPc' = "nodesRLock"
  /\ UNCHANGED <<collectorFrame, nodeLock, workloadLock, metricsLock, metrics,
                 handlerPcs>>

\* co.NodeManager.mutex.RLock() and the loop that counts the online nodes.
collectMetricsNodesRLock ==
  /\ collectPc = "nodesRLock"
  /\ CanRLock(nodeLock)
  /\ ~NodeWriterWaits
  /\ nodeLock' = RLocked(nodeLock, "collect")
  /\ collected' =
       [collected EXCEPT
          !.onlineNodes =
             Cardinality({ id \in DOMAIN nodes : nodes[id].Status = NodeStatusOnline })]
  /\ collectPc' = "nodesRUnlock"
  /\ UNCHANGED <<collectorFrame, workloadLock, metricsLock, metrics, handlerPcs>>

\* collectMetrics without its RUnlock of the node collection: a bug that
\* would leave the read lock held.
collectMetricsNodesStillLocked ==
  /\ collectPc = "nodesRUnlock"
  /\ collectPc' = "workloadCount"
  /\ UNCHANGED <<collectorFrame, nodeLock, workloadLock, metricsLock, collected,
                 metrics, handlerPcs>>

\* co.NodeManager.mutex.RUnlock()
collectMetricsNodesRUnlock ==
  /\ collectPc = "nodesRUnlock"
  /\ nodeLock' = RUnlocked(nodeLock, "collect")
  /\ collectPc' = "workloadCount"
  /\ UNCHANGED <<collectorFrame, workloadLock, metricsLock, collected, metrics,
                 handlerPcs>>

\* workloadCount := len(co.WorkloadManager.workloads), read without the
\* workload lock.
collectMetricsWorkloadCount ==
  /\ collectPc = "workloadCount"
  /\ collected' = [collected EXCEPT !.workloadCount = Cardinality(DOMAIN workloads)]
  /\ collectPc' = "workloadsRLock"
  /\ UNCHANGED <<collectorFrame, nodeLock, workloadLock, metricsLock, metrics,
                 handlerPcs>>

\* co.WorkloadManager.mutex.RLock() and the loop that counts the running
\* workloads.
collectMetricsWorkloadsRLock ==
  /\ collectPc = "workloadsRLock"
  /\ CanRLock(workloadLock)
  /\ ~WorkloadWriterWaits
  /\ workloadLock' = RLocked(workloadLock, "collect")
  /\ collected' =
       [collected EXCEPT
          !.runningWorkloads =
             Cardinality({ id \in DOMAIN workloads :
                             workloads[id].Status = WorkloadStatusRunning })]
  /\ collectPc' = "workloadsRUnlock"
  /\ UNCHANGED <<collectorFrame, nodeLock, metricsLock, metrics, handlerPcs>>

\* co.WorkloadManager.mutex.RUnlock()
collectMetricsWorkloadsRUnlock ==
  /\ collectPc = "workloadsRUnlock"
  /\ workloadLock' = RUnlocked(workloadLock, "collect")
  /\ collectPc' = "publish"
  /\ UNCHANGED <<collectorFrame, nodeLock, metricsLock, collected, metrics,
                 handlerPcs>>

\* collectMetrics replaces co.MonitoringService.metrics and returns: the
\* deferred Unlock.
collectMetricsPublish ==
  /\ collectPc = "publish"
  /\ metrics' = [nodes_total |-> collected.nodeCount,
                 nodes_online |-> collected.onlineNodes,
                 workloads_total |-> collected.workloadCount,
                 workloads_running |-> collected.runningWorkloads]
  /\ metricsLock' = [metricsLock EXCEPT !.writer = "none"]
  /\ collected' = NoCounts
  /\ collectPc' = "idle"
  /\ UNCHANGED <<collectorFrame, nodeLock, workloadLock, handlerPcs>>

\* GetMetrics: co.MonitoringService.mutex.RLock().
GetMetricsRLock ==
  /\ handlerPcs["metrics"] = "idle"
  /\ CanRLock(metricsLock)
  /\ ~MetricsWriterWaits
  /\ metricsLock' = RLocked(metricsLock, "metrics")
  /\ handlerPcs' = [handlerPcs EXCEPT !["metrics"] = "read"]
  /\ UNCHANGED <<collectorFrame, nodeLock, workloadLock, collectPc, collected,
                 metrics>>

\* GetMetrics answers with the metrics and returns: the deferred RUnlock.
GetMetricsRUnlock ==
  /\ handlerPcs["metrics"] = "read"
  /\ metricsLock' = RUnlocked(metricsLock, "metrics")
  /\ handlerPcs' = [handlerPcs EXCEPT !["metrics"] = "idle"]
  /\ UNCHANGED <<collectorFrame, nodeLock, workloadLock, collectPc, collected,
                 metrics>>

\* ListWorkloads: co.WorkloadManager.mutex.RLock().
ListWorkloadsRLock ==
  /\ handlerPcs["workloads"] = "idle"
  /\ CanRLock(workloadLock)
  /\ ~WorkloadWriterWaits
  /\ workloadLock' = RLocked(workloadLock, "workloads")
  /\ handlerPcs' = [handlerPcs EXCEPT !["workloads"] = "read"]
  /\ UNCHANGED <<collectorFrame, nodeLock, metricsLock, collectPc, collected,
                 metrics>>

\* ListWorkloads answers with the workloads and returns: the deferred
\* RUnlock.
ListWorkloadsRUnlock ==
  /\ handlerPcs["workloads"] = "read"
  /\ workloadLock' = RUnlocked(workloadLock, "workloads")
  /\ handlerPcs' = [handlerPcs EXCEPT !["workloads"] = "idle"]
  /\ UNCHANGED <<collectorFrame, nodeLock, metricsLock, collectPc, collected,
                 metrics>>

\* Requests and loops around the three locks, with one node and one
\* workload at most.  RegisterNode, ListNodes, NodeHeartbeat, DeployWorkload,
\* ListWorkloads and GetMetrics stand for the handlers: each of the others
\* (UnregisterNode, GetNode, GetWorkload, DeleteWorkload, ScaleWorkload)
\* takes the one lock that one of these takes, in the same mode, and calls
\* nothing that locks while it holds it.
NextDeadlock ==
  \/ /\ nodeSeq < MaxLockNodes
     /\ CanLock(nodeLock)
     /\ ~NodeWriterWaits
     /\ RegisterNode("", "", NoLabels)
  \/ ~NodeWriterWaits /\ checkNodeHealthRLock
  \/ \E nodeID \in NodeIDs : checkNodeHealthVisit(nodeID)
  \/ checkNodeHealthRUnlock
  \/ ~NodeWriterWaits /\ ListNodesRLock
  \/ ListNodesRUnlock
  \/ \E nodeID \in 1..MaxLockNodes : NodeHeartbeatLockCall(nodeID)
  \/ NodeHeartbeatLockReturn
  \/ NodeHeartbeatWrite(NodeStatusOnline)
  \/ NodeHeartbeatUnlock
  \/ /\ workloadSeq < MaxWorkloads
     /\ CanLock(workloadLock)
     /\ DeployWorkload(CompleteRequest[1], CompleteRequest[2], CompleteRequest[3],
                       1, "", <<>>)
  \/ ListWorkloadsRLock
  \/ ListWorkloadsRUnlock
  \/ scheduleWorkloadsLockCall
  \/ scheduleWorkloadsLockReturn
  \/ \E w \in WorkloadIDs : scheduleWorkloadsSkip(w)
  \/ \E w \in WorkloadIDs : ~NodeWriterWaits /\ selectNodesForWorkloadRLock(w)
  \/ \E candidates \in UNION { Orderings(S) : S \in SUBSET NodeIDs } :
       selectNodesForWorkloadRead(candidates)
  \/ selectNodesForWorkloadRUnlock
  \/ scheduleWorkloadAppend
  \/ scheduleWorkloadsUnlock
  \/ collectMetricsLockCall
  \/ collectMetricsLockReturn
  \/ collectMetricsNodeCount
  \/ collectMetricsNodesRLock
  \/ collectMetricsNodesRUnlock
  \/ collectMetricsWorkloadCount
  \/ collectMetricsWorkloadsRLock
  \/ collectMetricsWorkloadsRUnlock
  \/ collectMetricsPublish
  \/ GetMetricsRLock
  \/ GetMetricsRUnlock

SpecDeadlock == Init /\ [][NextDeadlock]_vars

\* The steps of each goroutine once it has entered its function.
SweepSteps ==
  \/ \E nodeID \in NodeIDs : checkNodeHealthVisit(nodeID)
  \/ checkNodeHealthRUnlock
HeartbeatSteps == NodeHeartbeatLockReturn \/ NodeHeartbeatWrite(NodeStatusOnline)
                    \/ NodeHeartbeatUnlock
SchedulerSteps ==
  \/ scheduleWorkloadsLockReturn
  \/ \E w \in WorkloadIDs : scheduleWorkloadsSkip(w)
  \/ \E w \in WorkloadIDs : ~NodeWriterWaits /\ selectNodesForWorkloadRLock(w)
  \/ \E candidates \in UNION { Orderings(S) : S \in SUBSET NodeIDs } :
       selectNodesForWorkloadRead(candidates)
  \/ selectNodesForWorkloadRUnlock
  \/ scheduleWorkloadAppend
  \/ scheduleWorkloadsUnlock
CollectorSteps ==
  \/ collectMetricsLockReturn
  \/ collectMetricsNodeCount
  \/ collectMetricsNodesRLock
  \/ collectMetricsNodesRUnlock
  \/ collectMetricsWorkloadCount
  \/ collectMetricsWorkloadsRLock
  \/ collectMetricsWorkloadsRUnlock
  \/ collectMetricsPublish

\* The Go scheduler runs every goroutine that can run, and a goroutine
\* that waits in RLock behind a waiting writer is let in when that writer
\* unlocks, before the next writer: the goroutines that take a lock while
\* they hold another are treated strongly fairly.  Requests begin when
\* clients send them.
SpecDeadlockFair ==
  /\ SpecDeadlock
  /\ WF_vars(SweepSteps)
  /\ WF_vars(ListNodesRUnlock)
  /\ WF_vars(ListWorkloadsRUnlock)
  /\ WF_vars(GetMetricsRUnlock)
  /\ SF_vars(HeartbeatSteps)
  /\ SF_vars(SchedulerSteps)
  /\ SF_vars(CollectorSteps)

(***************************************************************************)
(* The clock of the SecurityManagers.                                      *)
(***************************************************************************)
\* The wall clock moves on, or is stepped back, to instant t.
SetClock(t) ==
  /\ t # clock
  /\ clock' = t
  /\ UNCHANGED <<variant, now, goVars, last, jsVars, inFlight, tokens, tokenSeq,
                 certificates, certSeq, issuedPEMs, jsAppVars,
                 lockVars, procVars>>

(***************************************************************************)
(* JavaScript SecurityManager: bearer tokens (securityManager.js).         *)
(***************************************************************************)
\* Node ids the callers name; the SecurityManager takes any string.
TokenNodeIDs == 1..MaxJsNodes

\* Token strings the callers present: 0 is a string generateToken never
\* returned, n > 0 the n-th secret it returned.
TokenInputs == 0..MaxTokens

\* The instants at which the clock is read: around the issue of a token and
\* around the end of a token's thirty days.
TokenInstants == {0, 1, TokenValidity, TokenValidity + 1}

\* crypto.randomBytes(32).toString('hex'): a value no earlier call returned.
randomBytes(issued) == issued + 1

\* generateToken with a bug that would keep the entry a node already has.
generateTokenKeeping(nodeId) ==
  /\ tokenSeq < MaxTokens
  /\ LET token == randomBytes(tokenSeq) IN
       /\ tokens' = IF nodeId \in DOMAIN tokens
                      THEN tokens
                      ELSE MapPut(tokens, nodeId,
                                  [token |-> token,
                                   expiresAt |-> clock + TokenValidity,
                                   createdAt |-> clock])
       /\ tokenSeq' = token
       /\ last' = [op |-> "generateToken", code |-> token]
  /\ UNCHANGED <<variant, now, goVars, jsVars, inFlight, clock, certificates, certSeq, issuedPEMs, jsAppVars,
                 lockVars, procVars>>

\* generateToken: a fresh secret that expires in thirty days is stored under
\* the node id, in the place of the entry the node had, and returned.
generateToken(nodeId) ==
  /\ tokenSeq < MaxTokens
  /\ LET token == randomBytes(tokenSeq) IN
       /\ tokens' = MapPut(tokens, nodeId,
                           [token |-> token,
                            expiresAt |-> clock + TokenValidity,
                            createdAt |-> clock])
       /\ tokenSeq' = token
       /\ last' = [op |-> "generateToken", code |-> token]
  /\ UNCHANGED <<variant, now, goVars, jsVars, inFlight, clock, certificates, certSeq, issuedPEMs, jsAppVars,
                 lockVars, procVars>>

\* validateToken with >= for >: a bug that would refuse a token at the very
\* instant it expires.
validateTokenExpiringEarly(nodeId, token) ==
  IF nodeId \notin DOMAIN tokens
    THEN FALSE
    ELSE IF tokens[nodeId].token # token
           THEN FALSE
           ELSE IF clock >= tokens[nodeId].expiresAt THEN FALSE ELSE TRUE

\* validateToken: false without an entry for the node id, false when the
\* stored secret is not the given one, false after the expiry, else true.
validateToken(nodeId, token) ==
  IF nodeId \notin DOMAIN tokens
    THEN FALSE
    ELSE IF tokens[nodeId].token # token
           THEN FALSE
           ELSE IF clock > tokens[nodeId].expiresAt THEN FALSE ELSE TRUE

\* A caller asks validateToken.
callValidateToken(nodeId, token) ==
  /\ last' = [op |-> "validateToken",
              code |-> IF validateToken(nodeId, token) THEN JsTrue ELSE JsFalse]
  /\ UNCHANGED <<variant, now, goVars, jsVars, inFlight, secVars, jsAppVars, lockVars, procVars>>

\* revokeToken with a bug that would answer true and keep the entry.
revokeTokenKeeping(nodeId) ==
  /\ last' = [op |-> "revokeToken",
              code |-> IF nodeId \in DOMAIN tokens THEN JsTrue ELSE JsFalse]
  /\ UNCHANGED tokens
  /\ UNCHANGED <<variant, now, goVars, jsVars, inFlight, clock, tokenSeq,
                 certificates, certSeq, issuedPEMs, jsAppVars,
                 lockVars, procVars>>

\* revokeToken: the entry of the node id is deleted and true returned, or
\* false when there is none.
revokeToken(nodeId) ==
  /\ IF nodeId \in DOMAIN tokens
       THEN /\ tokens' = MapDelete(tokens, nodeId)
            /\ last' = [op |-> "revokeToken", code |-> JsTrue]
       ELSE /\ last' = [op |-> "revokeToken", code |-> JsFalse]
            /\ UNCHANGED tokens
  /\ UNCHANGED <<variant, now, goVars, jsVars, inFlight, clock, tokenSeq,
                 certificates, certSeq, issuedPEMs, jsAppVars,
                 lockVars, procVars>>

(***************************************************************************)
(* Go SecurityManager: certificates (GenerateCertificate and the methods   *)
(* after it).  The two reads of time.Now() that fill the template are      *)
(* taken at one instant.                                                   *)
(***************************************************************************)
CertNodeIDs == 1..MaxNodes
CertificateIDs == 1..MaxCertificates

\* The instants at which the clock is read: around the issue of a
\* certificate and around the end of its 365 days.
CertInstants ==
  {0, 1, 2, CertValidityPeriod, CertValidityPeriod + 1, CertValidityPeriod + 2}

\* The validity times of an X.509 certificate are written with a resolution
\* of one second: the fraction of a second is dropped.
TruncateToSecond(t) == (t \div TicksPerSecond) * TicksPerSecond

\* rsa.GenerateKey: a key pair no earlier call returned.
GenerateKey(issued) == issued + 1

\* x509.CreateCertificate and pem.EncodeToMemory: the PEM block of the
\* certificate the template describes, for the given public key.
CreateCertificate(template, publicKey) ==
  [Type |-> "CERTIFICATE",
   PublicKey |-> publicKey,
   NotBefore |-> TruncateToSecond(template.NotBefore),
   NotAfter |-> TruncateToSecond(template.NotAfter)]

\* Bytes that hold no PEM block: pem.Decode returns nil.
NotPEM == [Type |-> ""]

\* x509.ParseCertificate(block.Bytes)
ParseCertificate(certPEM) ==
  [NotBefore |-> certPEM.NotBefore, NotAfter |-> certPEM.NotAfter]

\* GenerateCertificate: an error when no key can be generated; else a
\* self-signed certificate valid for 365 days from now is stored under a
\* fresh id and returned.
GenerateCertificate(nodeID, keyGenerated) ==
  /\ ~crashed
  /\ IF ~keyGenerated
       THEN /\ last' = [op |-> "GenerateCertificate", code |-> ErrGenerateKey]
            /\ UNCHANGED <<certificates, certSeq, issuedPEMs>>
       ELSE /\ certSeq < MaxCertificates
            /\ LET template == [NotBefore |-> clock,
                                NotAfter |-> clock + CertValidityPeriod]
                   certPEM == CreateCertificate(template, GenerateKey(certSeq))
                   certID == generateID(certSeq)
                   cert == [ID |-> certID,
                            NodeID |-> nodeID,
                            Certificate |-> certPEM,
                            IssuedAt |-> template.NotBefore,
                            ExpiresAt |-> template.NotAfter]
               IN /\ certificates' = MapPut(certificates, certID, cert)
                  /\ certSeq' = certID
                  /\ issuedPEMs' = MapPut(issuedPEMs, certID, certPEM)
            /\ last' = [op |-> "GenerateCertificate", code |-> ErrNil]
  /\ UNCHANGED <<variant, now, goVars, jsVars, inFlight, clock, tokens, tokenSeq, jsAppVars, lockVars, procVars>>

\* RevokeCertificate with a bug that would remove every certificate of the
\* node the revoked certificate belongs to.
RevokeCertificateOfNode(certificateID) ==
  /\ ~crashed
  /\ IF certificateID \notin DOMAIN certificates
       THEN /\ last' = [op |-> "RevokeCertificate", code |-> ErrCertificateNotFound]
            /\ UNCHANGED certificates
       ELSE /\ certificates' =
                 [id \in { c \in DOMAIN certificates :
                             certificates[c].NodeID # certificates[certificateID].NodeID }
                    |-> certificates[id]]
            /\ last' = [op |-> "RevokeCertificate", code |-> ErrNil]
  /\ UNCHANGED <<certSeq, issuedPEMs>>
  /\ UNCHANGED <<variant, now, goVars, jsVars, inFlight, clock, tokens, tokenSeq, jsAppVars, lockVars, procVars>>

\* RevokeCertificate: "certificate not found" for an id that is not stored,
\* else the record is deleted.
RevokeCertificate(certificateID) ==
  /\ ~crashed
  /\ IF certificateID \notin DOMAIN certificates
       THEN /\ last' = [op |-> "RevokeCertificate", code |-> ErrCertificateNotFound]
            /\ UNCHANGED certificates
       ELSE /\ certificates' = MapDelete(certificates, certificateID)
            /\ last' = [op |-> "RevokeCertificate", code |-> ErrNil]
  /\ UNCHANGED <<certSeq, issuedPEMs>>
  /\ UNCHANGED <<variant, now, goVars, jsVars, inFlight, clock, tokens, tokenSeq, jsAppVars, lockVars, procVars>>

\* ValidateClientCertificate looking the certificate up in the store: a bug
\* (or a revocation check) that would make the result depend on the store.
ValidateClientCertificateStored(certPEM) ==
  IF certPEM.Type = ""
    THEN ErrParsePEM
    ELSE LET cert == ParseCertificate(certPEM) IN
         IF clock < cert.NotBefore \/ clock > cert.NotAfter
           THEN ErrCertificateNotValid
           ELSE IF \E id \in DOMAIN certificates :
                     certificates[id].Certificate = certPEM
                  THEN ErrNil
                  ELSE ErrCertificateNotValid

\* ValidateClientCertificate: the certificate is parsed and the clock
\* compared with its validity times; the store is not read.
ValidateClientCertificate(certPEM) ==
  IF certPEM.Type = ""
    THEN ErrParsePEM
    ELSE LET cert == ParseCertificate(certPEM) IN
         IF clock < cert.NotBefore \/ clock > cert.NotAfter
           THEN ErrCertificateNotValid
           ELSE ErrNil

\* A caller asks ValidateClientCertificate.
callValidateClientCertificate(certPEM) ==
  /\ ~crashed
  /\ last' = [op |-> "ValidateClientCertificate",
              code |-> ValidateClientCertificate(certPEM)]
  /\ UNCHANGED <<variant, now, goVars, jsVars, inFlight, secVars, jsAppVars, lockVars, procVars>>

(***************************************************************************)
(* The SecurityManager of either implementation with its clock.            *)
(***************************************************************************)
NextCredentials ==
  \/ Js /\ \E nodeId \in TokenNodeIDs : generateToken(nodeId)
  \/ Js /\ \E nodeId \in TokenNodeIDs, token \in TokenInputs :
             callValidateToken(nodeId, token)
  \/ Js /\ \E nodeId \in TokenNodeIDs : revokeToken(nodeId)
  \/ Js /\ \E t \in TokenInstants : SetClock(t)
  \/ Go /\ \E nodeID \in CertNodeIDs, keyGenerated \in BOOLEAN :
             GenerateCertificate(nodeID, keyGenerated)
  \/ Go /\ \E certificateID \in CertificateIDs : RevokeCertificate(certificateID)
  \/ Go /\ \E certID \in DOMAIN issuedPEMs :
             callValidateClientCertificate(issuedPEMs[certID])
  \/ Go /\ callValidateClientCertificate(NotPEM)
  \/ Go /\ \E t \in CertInstants : SetClock(t)

SpecCredentials == InitRegistry /\ [][NextCredentials]_vars

(***************************************************************************)
(* The routes of the Node.js orchestrator (setupRoutes) with the managers  *)
(* they call.  A route's outcome is the HTTP status it answers with.       *)
(***************************************************************************)
\* The x-node-id and x-auth-token headers the callers send.
\* No headers, one of the two, or both: the token is 0, a string generateToken
\* never returned, or one of the first two secrets it returned.
HeaderTokens == 0..2
Headers ==
  {NoRequest, [nodeId |-> 1, token |-> NoHeader], [nodeId |-> NoHeader, token |-> 1]}
    \cup [nodeId : TokenNodeIDs, token : HeaderTokens]

\* The instants at which the routes read the clock: when the tokens are
\* issued, and after their thirty days.
RouteInstants == {0, TokenValidity + 1}

\* The status of a PUT .../status body; "" is an absent status.
RouteStatusInputs == {"", "DEGRADED"}

\* The workload ids of the paths and the nodeId of a deploy body; 0 is an
\* absent nodeId.
JsWorkloadIDs == 1..MaxJsWorkloads
DeployNodeInputs == {0, 1}

\* The outcome of a middleware that calls next().
CallsNext == 0

\* authenticate: 401 without both headers, 403 when validateToken refuses
\* them, else the route's handler runs.
authenticate(headers) ==
  IF headers.nodeId = NoHeader \/ headers.token = NoHeader
    THEN 401
    ELSE IF ~validateToken(headers.nodeId, headers.token)
           THEN 403
           ELSE CallsNext

\* POST /api/nodes/register: 400 without name or ipAddress, else the node is
\* registered, a token is generated for its id, and both are returned.
postNodesRegister(headers, complete) ==
  /\ request' = headers
  /\ IF ~complete
       THEN /\ last' = [op |-> "POST /api/nodes/register", code |-> 400]
            /\ UNCHANGED <<jsNodes, jsSeq, tokens, tokenSeq>>
       ELSE /\ jsSeq < MaxJsNodes
            /\ tokenSeq < MaxTokens
            /\ LET nodeId == uuidv4(jsSeq)
                   node == [id |-> nodeId, status |-> "REGISTERED", lastSeen |-> now]
                   token == randomBytes(tokenSeq)
               IN /\ jsNodes' = MapPut(jsNodes, nodeId, node)
                  /\ jsSeq' = nodeId
                  /\ tokens' = MapPut(tokens, nodeId,
                                      [token |-> token,
                                       expiresAt |-> clock + TokenValidity,
                                       createdAt |-> clock])
                  /\ tokenSeq' = token
            /\ last' = [op |-> "POST /api/nodes/register", code |-> 201]
  /\ UNCHANGED <<variant, now, goVars, inFlight, clock, certificates, certSeq,
                 issuedPEMs, jsWorkloads, jsWorkloadSeq, jsMetrics,
                 lockVars, procVars>>

\* PUT /api/nodes/:nodeId/status, behind authenticate: 400 without a status,
\* 500 when updateNodeStatus throws for an unknown id, else the node of the
\* path gets the status.
putNodeStatus(headers, nodeId, status) ==
  /\ request' = headers
  /\ IF authenticate(headers) # CallsNext
       THEN /\ last' = [op |-> "PUT /api/nodes/:nodeId/status",
                        code |-> authenticate(headers)]
            /\ UNCHANGED jsNodes
       ELSE IF status = ""
              THEN /\ last' = [op |-> "PUT /api/nodes/:nodeId/status", code |-> 400]
                   /\ UNCHANGED jsNodes
              ELSE IF nodeId \notin DOMAIN jsNodes
                     THEN /\ last' = [op |-> "PUT /api/nodes/:nodeId/status",
                                      code |-> 500]
                          /\ UNCHANGED jsNodes
                     ELSE /\ jsNodes' = [jsNodes EXCEPT ![nodeId].status = status,
                                                        ![nodeId].lastSeen = now]
                          /\ last' = [op |-> "PUT /api/nodes/:nodeId/status",
                                      code |-> 200]
  /\ UNCHANGED <<variant, now, goVars, jsSeq, inFlight, secVars, jsWorkloads,
                 jsWorkloadSeq, jsMetrics, lockVars, procVars>>

\* createWorkload: the workload a specification becomes.  It has no
\* updatedAt until a later call sets one.
createWorkload(workloadId, name, type, image) ==
  [id |-> workloadId,
   name |-> name,
   type |-> type,
   image |-> image,
   status |-> "CREATED",
   targetNodes |-> <<>>,
   updatedAt |-> NoDate]

\* POST /api/workloads: 400 without name, type or image, else the workload
\* is created under a fresh id.  No middleware runs before the handler.
postWorkloads(headers, name, type, image) ==
  /\ request' = headers
  /\ IF name = "" \/ type = "" \/ image = ""
       THEN /\ last' = [op |-> "POST /api/workloads", code |-> 400]
            /\ UNCHANGED <<jsWorkloads, jsWorkloadSeq>>
       ELSE /\ jsWorkloadSeq < MaxJsWorkloads
            /\ LET workloadId == uuidv4(jsWorkloadSeq) IN
                 /\ jsWorkloads' = MapPut(jsWorkloads, workloadId,
                                          createWorkload(workloadId, name, type, image))
                 /\ jsWorkloadSeq' = workloadId
            /\ last' = [op |-> "POST /api/workloads", code |-> 201]
  /\ UNCHANGED <<variant, now, goVars, jsVars, inFlight, secVars, jsMetrics, lockVars, procVars>>

\* deployWorkload without the test targetNodes.includes(nodeId): a bug that
\* would add the node and stamp the workload at every call.
deployWorkloadAgain(workload, nodeId) ==
  [workload EXCEPT !.targetNodes = Append(@, nodeId),
                   !.status = "DEPLOYING",
                   !.updatedAt = clock]

\* deployWorkload: the workload with the node among its targets; a node
\* that is new to them makes it DEPLOYING and stamps it with the time.
deployWorkload(workload, nodeId) ==
  IF \E i \in DOMAIN workload.targetNodes : workload.targetNodes[i] = nodeId
    THEN workload
    ELSE [workload EXCEPT !.targetNodes = Append(@, nodeId),
                          !.status = "DEPLOYING",
                          !.updatedAt = clock]

\* POST /api/workloads/:workloadId/deploy: 400 without a nodeId, 500 when
\* deployWorkload throws for an unknown workload, else the node is added to
\* the workload's targets.  No middleware runs before the handler.
postWorkloadDeploy(headers, workloadId, nodeId) ==
  /\ request' = headers
  /\ IF nodeId = 0
       THEN /\ last' = [op |-> "POST /api/workloads/:workloadId/deploy", code |-> 400]
            /\ UNCHANGED jsWorkloads
       ELSE IF workloadId \notin DOMAIN jsWorkloads
              THEN /\ last' = [op |-> "POST /api/workloads/:workloadId/deploy",
                               code |-> 500]
                   /\ UNCHANGED jsWorkloads
              ELSE /\ jsWorkloads' =
                        [jsWorkloads EXCEPT
                           ![workloadId] = deployWorkload(@, nodeId)]
                   /\ last' = [op |-> "POST /api/workloads/:workloadId/deploy",
                               code |-> 200]
  /\ UNCHANGED <<variant, now, goVars, jsVars, inFlight, secVars, jsWorkloadSeq,
                 jsMetrics, lockVars, procVars>>

\* POST /api/nodes/:nodeId/metrics, behind authenticate: the metrics of the
\* body are stored under the node id of the path, with the time.
postNodeMetrics(headers, nodeId) ==
  /\ request' = headers
  /\ IF authenticate(headers) # CallsNext
       THEN /\ last' = [op |-> "POST /api/nodes/:nodeId/metrics",
                        code |-> authenticate(headers)]
            /\ UNCHANGED jsMetrics
       ELSE /\ jsMetrics' = MapPut(jsMetrics, nodeId, [timestamp |-> clock])
            /\ last' = [op |-> "POST /api/nodes/:nodeId/metrics", code |-> 200]
  /\ UNCHANGED <<variant, now, goVars, jsVars, inFlight, secVars, jsWorkloads,
                 jsWorkloadSeq, lockVars, procVars>>

InitRoutes ==
  /\ variant = "js"
  /\ Start

NextRoutes ==
  \/ \E headers \in Headers, complete \in BOOLEAN : postNodesRegister(headers, complete)
  \/ \E headers \in Headers, nodeId \in JsNodeIDs, status \in RouteStatusInputs :
       putNodeStatus(headers, nodeId, status)
  \/ \E headers \in Headers :
       postWorkloads(headers, CompleteRequest[1], CompleteRequest[2], CompleteRequest[3])
  \/ \E headers \in Headers, request3 \in IncompleteRequests :
       postWorkloads(headers, request3[1], request3[2], request3[3])
  \/ \E headers \in Headers, workloadId \in JsWorkloadIDs, nodeId \in DeployNodeInputs :
       postWorkloadDeploy(headers, workloadId, nodeId)
  \/ \E headers \in Headers, nodeId \in JsNodeIDs : postNodeMetrics(headers, nodeId)
  \/ \E nodeId \in TokenNodeIDs : revokeToken(nodeId)
  \/ \E t \in RouteInstants : SetClock(t)

SpecRoutes == InitRoutes /\ [][NextRoutes]_vars

\* The nodeId of a deploy body: absent, or the id of either node.
DeployBodyInputs == {0} \cup JsNodeIDs

\* Workloads are created and deployed to nodes, again and again, while the
\* time passes.
NextDeploy ==
  \/ \E headers \in Headers :
       postWorkloads(headers, CompleteRequest[1], CompleteRequest[2], CompleteRequest[3])
  \/ \E headers \in Headers, workloadId \in JsWorkloadIDs, nodeId \in DeployBodyInputs :
       postWorkloadDeploy(headers, workloadId, nodeId)
  \/ \E t \in RouteInstants : SetClock(t)

SpecDeploy == InitRoutes /\ [][NextDeploy]_vars

(***************************************************************************)
(* Scheduling claims (specification Spec).                                 *)
(***************************************************************************)
Min(a, b) == IF a <= b THEN a ELSE b

\* The records a step has appended to workload w.
Appended(w) ==
  SubSeq(workloads'[w].Deployments,
         Len(workloads[w].Deployments) + 1, Len(workloads'[w].Deployments))

\* A step of some pass that appends records to a workload of the collection.
AppendsTo(w) ==
  /\ w \in DOMAIN workloads
  /\ w \in DOMAIN workloads'
  /\ Len(workloads'[w].Deployments) > Len(workloads[w].Deployments)

\* The placement policy's constraints as the specification words them: the
\* node's region, zone or label of the constraint's key is one of its values.
SatisfiesEvery(node, constraints) ==
  \A i \in DOMAIN constraints :
    \E j \in DOMAIN constraints[i].Values :
      LET v == constraints[i].Values[j] IN
        \/ constraints[i].Key = "region" /\ node.Region = v
        \/ constraints[i].Key = "zone" /\ node.Zone = v
        \/ /\ constraints[i].Key \notin {"region", "zone"}
           /\ constraints[i].Key \in DOMAIN node.Labels
           /\ node.Labels[constraints[i].Key] = v

\* The candidate set of workload w in registry reg: the online nodes that
\* satisfy every constraint.
Candidates(reg, w) ==
  { id \in DOMAIN reg :
      /\ reg[id].Status = NodeStatusOnline
      /\ SatisfiesEvery(reg[id], workloads[w].Placement.Constraints) }

\* The candidate set of the pass in progress, from the snapshot it read.
SnapshotCandidates(w) == Candidates(schedSnap, w)

\* The range loop takes pending workload w off its worklist in this step.
Evaluates(w) ==
  /\ schedPc = "range"
  /\ w \in schedTodo
  /\ w \notin schedTodo'
  /\ workloads[w].Status = WorkloadStatusPending

\* C1: every deployment record a scheduling pass appends names a node that
\* was online and satisfied every constraint of the workload in the registry
\* snapshot the pass read; offline, degraded, maintenance or non-matching
\* nodes of the snapshot receive no record from the pass.
C1_RecordsOnlyOnEligibleNodes ==
  [][\A w \in WorkloadIDs :
       AppendsTo(w) =>
         /\ schedPc = "deploy"
         /\ w = schedCur
         /\ \A i \in DOMAIN Appended(w) :
              Appended(w)[i].NodeID \in SnapshotCandidates(w)]_vars

\* C1 witness: a pass has just appended a record while a node of the
\* registry it read was not online and got none.
C1_Witness ==
  /\ last = [op |-> "scheduleWorkload", code |-> 0]
  /\ \E w \in DOMAIN workloads :
       /\ workloads[w].Status = WorkloadStatusRunning
       /\ Len(workloads[w].Deployments) = 1
       /\ \E id \in DOMAIN nodes :
            /\ nodes[id].Status \in {NodeStatusOffline, NodeStatusDegraded,
                                     NodeStatusMaintenance}
            /\ id # workloads[w].Deployments[1].NodeID

\* C2: a pass over a pending workload with r >= 1 desired replicas and a
\* non-empty candidate set C goes on to deploy, and appends exactly
\* min(r, |C|) records, on pairwise distinct nodes of C, each running with
\* one replica, and sets the workload running.
C2_MinReplicasCandidates ==
  [][/\ \A w \in WorkloadIDs :
          (/\ Evaluates(w)
           /\ workloads[w].Replicas >= 1
           /\ Candidates(nodes, w) # {}) =>
             /\ schedPc' = "deploy"
             /\ schedCur' = w
             /\ schedSnap' = nodes
     /\ (scheduleWorkload /\ workloads[schedCur].Replicas >= 1) =>
       LET w == schedCur
           C == SnapshotCandidates(w)
           added == Appended(w)
       IN /\ C # {}
          /\ Len(added) = Min(workloads[w].Replicas, Cardinality(C))
          /\ \A i \in DOMAIN added :
               /\ added[i].NodeID \in C
               /\ added[i].Replicas = 1
               /\ added[i].Status = WorkloadStatusRunning
               /\ \A j \in DOMAIN added : i # j => added[i].NodeID # added[j].NodeID
          /\ SubSeq(workloads'[w].Deployments, 1, Len(workloads[w].Deployments))
               = workloads[w].Deployments
          /\ workloads'[w].Status = WorkloadStatusRunning
          /\ workloads'[w].Replicas = workloads[w].Replicas]_vars

\* C2 witness: a pass placed a workload wanting two replicas on two nodes.
C2_Witness ==
  /\ last = [op |-> "scheduleWorkload", code |-> 0]
  /\ \E w \in DOMAIN workloads :
       /\ workloads[w].Replicas = 2
       /\ workloads[w].Status = WorkloadStatusRunning
       /\ Len(workloads[w].Deployments) = 2
       /\ workloads[w].Deployments[1].NodeID # workloads[w].Deployments[2].NodeID

\* C2, the other case: fewer records than candidates.
C2_WitnessTruncated ==
  /\ last = [op |-> "scheduleWorkload", code |-> 0]
  /\ \E w \in DOMAIN workloads :
       /\ workloads[w].Replicas = 1
       /\ Len(workloads[w].Deployments) = 1
       /\ Cardinality({ id \in DOMAIN nodes :
                          nodes[id].Status = NodeStatusOnline }) = 2
       /\ workloads[w].Placement.Constraints = <<>>

\* C3: a pass that finds no eligible candidate leaves the workload pending
\* and its deployment list as it was, and the next tick's loop takes every
\* workload of the collection up again: a pending workload leaves the loop's
\* worklist only by being evaluated.
C3_NoCandidateStaysPending ==
  [][/\ \A w \in WorkloadIDs, candidates \in {<<>>} :
          (selectNodesForWorkload(w, candidates)) =>
             /\ workloads' = workloads
             /\ workloads'[w].Status = WorkloadStatusPending
             /\ last' = [op |-> "scheduleWorkload", code |-> 1]
     /\ scheduleWorkloads => schedTodo' = DOMAIN workloads
     /\ \A w \in schedTodo \ schedTodo' :
          workloads[w].Status = WorkloadStatusPending =>
            last'.op \in {"scheduleWorkload", "selectNodesForWorkload"}]_vars

\* C3 witness: a pass has just failed for want of candidates and the
\* workload is still pending with no record.
C3_Witness ==
  /\ last = [op |-> "scheduleWorkload", code |-> 1]
  /\ \E w \in DOMAIN workloads :
       /\ workloads[w].Status = WorkloadStatusPending
       /\ workloads[w].Deployments = <<>>
       /\ DOMAIN nodes # {}

\* C4: scale(id, n) sets the desired replica count to n and the status to
\* pending whatever the workload's status and records were, and the pass that
\* follows, given at least n eligible nodes, leaves the workload running with
\* exactly n deployment records in total.
C4_ScaleThenTickGivesNRecords ==
  [][/\ \A w \in WorkloadIDs, n \in ReplicaInputs :
          (ScaleWorkload(w, n) /\ last'.code = 200) =>
             /\ workloads'[w].Replicas = n
             /\ workloads'[w].Status = WorkloadStatusPending
     /\ (/\ scheduleWorkload
         /\ workloads[schedCur].Replicas >= 1
         /\ Cardinality(SnapshotCandidates(schedCur)) >= workloads[schedCur].Replicas) =>
          /\ workloads'[schedCur].Status = WorkloadStatusRunning
          /\ Len(workloads'[schedCur].Deployments) = workloads[schedCur].Replicas]_vars

\* C5: in every reachable state a workload's deployment list holds at most
\* one record per node id.
C5_OneRecordPerNode ==
  \A w \in DOMAIN workloads :
    \A i, j \in DOMAIN workloads[w].Deployments :
      i # j => workloads[w].Deployments[i].NodeID # workloads[w].Deployments[j].NodeID

\* C6: no client request sets a workload running: a workload is created
\* pending, a successful scale leaves it pending, and the only step after
\* which a workload is running that was not running before is the commit of
\* a scheduling pass that placed it on at least one node.
C6_OnlySchedulerSetsRunning ==
  [][/\ \A w \in DOMAIN workloads' :
          (/\ workloads'[w].Status = WorkloadStatusRunning
           /\ (w \in DOMAIN workloads => workloads[w].Status # WorkloadStatusRunning)) =>
             /\ scheduleWorkload
             /\ w = schedCur
             /\ Len(Appended(w)) >= 1
     /\ \A w \in (DOMAIN workloads') \ (DOMAIN workloads) :
          /\ last'.op = "DeployWorkload"
          /\ workloads'[w].Status = WorkloadStatusPending
     /\ \A w \in WorkloadIDs, n \in ReplicaInputs :
          (ScaleWorkload(w, n) /\ last'.code = 200) =>
             workloads'[w].Status = WorkloadStatusPending
     /\ last'.op \in {"GetWorkload", "ListWorkloads"} => workloads' = workloads]_vars

\* C6 witness: a workload that a pass had placed has just been scaled and is
\* pending again, still holding its records.
C6_Witness ==
  /\ last = [op |-> "ScaleWorkload", code |-> 200]
  /\ \E w \in DOMAIN workloads :
       /\ workloads[w].Status = WorkloadStatusPending
       /\ Len(workloads[w].Deployments) >= 1

(***************************************************************************)
(* Registry claims (specification SpecRegistry).                           *)
(***************************************************************************)
GoStale(id) == now - nodes[id].LastHeartbeat > GoStaleMinutes
JsStale(id) == now - jsNodes[id].lastSeen > JsStaleMinutes

DegradedOrMaintenance == {NodeStatusDegraded, NodeStatusMaintenance}
JsDegradedOrMaintenance == {"DEGRADED", "MAINTENANCE"}

\* C7: a heartbeat on a registered node succeeds and leaves the node with
\* the status passed and lastHeartbeat equal to the time of the call,
\* whatever its status was; on an unknown id it fails with NotFound and the
\* registry is unchanged.  The same for updateNodeStatus of the NodeManager.
C7_HeartbeatOverwrites ==
  [][/\ \A nodeID \in NodeIDs, status \in HeartbeatStatuses :
          (last'.op = "NodeHeartbeat" /\ NodeHeartbeat(nodeID, status)) =>
            IF nodeID \in DOMAIN nodes
              THEN /\ last'.code = 200
                   /\ nodeID \in DOMAIN nodes'
                   /\ nodes'[nodeID].Status = status
                   /\ nodes'[nodeID].LastHeartbeat = now
              ELSE /\ last'.code = 404
                   /\ nodes' = nodes
     /\ \A nodeId \in JsNodeIDs, status \in JsStatusInputs :
          (last'.op = "updateNodeStatus" /\ updateNodeStatus(nodeId, status)) =>
            IF nodeId \in DOMAIN jsNodes
              THEN /\ last'.code = Returned
                   /\ nodeId \in DOMAIN jsNodes'
                   /\ jsNodes'[nodeId].status = status
                   /\ jsNodes'[nodeId].lastSeen = now
              ELSE /\ last'.code = ThrewNotFound
                   /\ jsNodes' = jsNodes]_vars

\* C7 witness: a heartbeat has just succeeded later than the staleness
\* threshold after start: its node is online with lastHeartbeat = now, while
\* a node the sweep has set offline is still offline.
C7_Witness ==
  /\ last = [op |-> "NodeHeartbeat", code |-> 200]
  /\ now > GoStaleMinutes
  /\ \E a, b \in DOMAIN nodes :
       /\ nodes[a].Status = NodeStatusOnline
       /\ nodes[a].LastHeartbeat = now
       /\ nodes[b].Status = NodeStatusOffline
       /\ nodes[b].UpdatedAt > nodes[b].LastHeartbeat

\* C8 as claimed: one sweep sets a stale node that is not offline offline,
\* and the sweep that follows a sweep which set a node offline, with no
\* request in between, changes nothing in the registry.
C8_SecondSweepChangesNothing ==
  [][/\ checkNodeHealth =>
          /\ \A id \in DOMAIN nodes :
               (GoStale(id) /\ nodes[id].Status # NodeStatusOffline) =>
                  nodes'[id].Status = NodeStatusOffline
          /\ (last.op = "checkNodeHealth" /\ last.code >= 1) => nodes' = nodes
     /\ checkNodesHealth =>
          /\ \A id \in DOMAIN jsNodes :
               (JsStale(id) /\ jsNodes[id].status # "OFFLINE") =>
                  jsNodes'[id].status = "OFFLINE"
          /\ (last.op = "checkNodesHealth" /\ last.code >= 1) =>
                jsNodes' = jsNodes]_vars

\* C8 amended: one sweep sets a stale node that is not offline offline (and
\* stamps its UpdatedAt), and a second sweep with no request in between
\* changes neither the status nor the UpdatedAt of that node or of any other
\* node that is offline; it can still set offline a node that has become
\* stale in the meantime.  No sweep adds or removes a node.
C8_SweepIdempotentOnOffline ==
  [][/\ checkNodeHealth =>
          /\ DOMAIN nodes' = DOMAIN nodes
          /\ \A id \in DOMAIN nodes :
               /\ (GoStale(id) /\ nodes[id].Status # NodeStatusOffline) =>
                     /\ nodes'[id].Status = NodeStatusOffline
                     /\ nodes'[id].UpdatedAt = now
               /\ (last.op = "checkNodeHealth" /\ nodes[id].Status = NodeStatusOffline) =>
                     nodes'[id] = nodes[id]
     /\ checkNodesHealth =>
          /\ DOMAIN jsNodes' = DOMAIN jsNodes
          /\ \A id \in DOMAIN jsNodes :
               /\ (JsStale(id) /\ jsNodes[id].status # "OFFLINE") =>
                     jsNodes'[id].status = "OFFLINE"
               /\ (last.op = "checkNodesHealth" /\ jsNodes[id].status = "OFFLINE") =>
                     jsNodes'[id] = jsNodes[id]]_vars

\* C8 witness: a sweep that found nothing to change was the last operation,
\* after an earlier sweep had set a node offline; the node still carries the
\* earlier sweep's stamp.
C8_Witness ==
  /\ last = [op |-> "checkNodeHealth", code |-> 0]
  /\ \E id \in DOMAIN nodes :
       /\ nodes[id].Status = NodeStatusOffline
       /\ nodes[id].UpdatedAt - nodes[id].LastHeartbeat > GoStaleMinutes
       /\ nodes[id].UpdatedAt < now

\* C9 as claimed: the sweep never changes the status of a degraded node or
\* of a node in maintenance, and those statuses are entered and left only
\* by a heartbeat or status update.
C9_SweepSparesDegradedMaintenance ==
  [][/\ \A id \in (DOMAIN nodes) \cap (DOMAIN nodes') :
          (/\ nodes[id].Status # nodes'[id].Status
           /\ \/ nodes[id].Status \in DegradedOrMaintenance
              \/ nodes'[id].Status \in DegradedOrMaintenance) =>
             last'.op = "NodeHeartbeat"
     /\ \A id \in (DOMAIN jsNodes) \cap (DOMAIN jsNodes') :
          (/\ jsNodes[id].status # jsNodes'[id].status
           /\ \/ jsNodes[id].status \in JsDegradedOrMaintenance
              \/ jsNodes'[id].status \in JsDegradedOrMaintenance) =>
             last'.op = "updateNodeStatus"]_vars

\* C9 amended: the sweep never changes a degraded node or a node in
\* maintenance whose heartbeat is within the threshold, and sets a stale one
\* offline like any other node; the two statuses are entered only by a
\* heartbeat or status update and left only by one or by the sweep.
C9_SweepSparesFreshDegradedMaintenance ==
  [][/\ \A id \in (DOMAIN nodes) \cap (DOMAIN nodes') :
          /\ (checkNodeHealth /\ nodes[id].Status \in DegradedOrMaintenance) =>
                IF GoStale(id) THEN nodes'[id].Status = NodeStatusOffline
                               ELSE nodes'[id] = nodes[id]
          /\ (/\ nodes[id].Status # nodes'[id].Status
              /\ nodes'[id].Status \in DegradedOrMaintenance) =>
                last'.op = "NodeHeartbeat"
          /\ (/\ nodes[id].Status # nodes'[id].Status
              /\ nodes[id].Status \in DegradedOrMaintenance) =>
                last'.op \in {"NodeHeartbeat", "checkNodeHealth"}
     /\ \A id \in (DOMAIN nodes') \ (DOMAIN nodes) :
          nodes'[id].Status \notin DegradedOrMaintenance
     /\ \A id \in (DOMAIN jsNodes) \cap (DOMAIN jsNodes') :
          /\ (checkNodesHealth /\ jsNodes[id].status \in JsDegradedOrMaintenance) =>
                IF JsStale(id) THEN jsNodes'[id].status = "OFFLINE"
                               ELSE jsNodes'[id] = jsNodes[id]
          /\ (/\ jsNodes[id].status # jsNodes'[id].status
              /\ jsNodes'[id].status \in JsDegradedOrMaintenance) =>
                last'.op = "updateNodeStatus"
          /\ (/\ jsNodes[id].status # jsNodes'[id].status
              /\ jsNodes[id].status \in JsDegradedOrMaintenance) =>
                last'.op \in {"updateNodeStatus", "checkNodesHealth"}
     /\ \A id \in (DOMAIN jsNodes') \ (DOMAIN jsNodes) :
          jsNodes'[id].status \notin JsDegradedOrMaintenance]_vars

\* C9 witness: the sweep has just set one node offline and left alone a
\* node in maintenance whose heartbeat is exactly as old as the threshold.
C9_Witness ==
  /\ last.op = "checkNodeHealth"
  /\ \E a, b \in DOMAIN nodes :
       /\ nodes[a].Status = NodeStatusOffline
       /\ nodes[a].UpdatedAt = now
       /\ nodes[a].UpdatedAt > nodes[a].LastHeartbeat
       /\ nodes[b].Status = NodeStatusMaintenance
       /\ now - nodes[b].LastHeartbeat = GoStaleMinutes

\* C10: the sweep changes only nodes whose heartbeat is older than the
\* threshold: a node registered or heard from within the threshold, also one
\* that has not sent a heartbeat since it registered, is not set offline.
C10_SweepOnlyStale ==
  [][/\ checkNodeHealth =>
          /\ DOMAIN nodes' = DOMAIN nodes
          /\ \A id \in DOMAIN nodes :
               nodes'[id] # nodes[id] => now - nodes[id].LastHeartbeat > GoStaleMinutes
     /\ checkNodesHealth =>
          /\ DOMAIN jsNodes' = DOMAIN jsNodes
          /\ \A id \in DOMAIN jsNodes :
               jsNodes'[id] # jsNodes[id] => now - jsNodes[id].lastSeen > JsStaleMinutes]_vars

\* C10 witness: the sweep of the NodeManager has set one node OFFLINE and a
\* node still REGISTERED, seen exactly five minutes ago, is untouched.
C10_Witness ==
  /\ last.op = "checkNodesHealth"
  /\ \E a, b \in DOMAIN jsNodes :
       /\ jsNodes[a].status = "OFFLINE"
       /\ now - jsNodes[a].lastSeen > JsStaleMinutes
       /\ jsNodes[b].status = "REGISTERED"
       /\ now - jsNodes[b].lastSeen = JsStaleMinutes

(***************************************************************************)
(* Registration claims (specification SpecRegister).                       *)
(***************************************************************************)
\* The ids generateID and uuidv4 have handed out so far.
IssuedIDs == 1..nodeSeq
JsIssuedIDs == 1..jsSeq

\* The handlers whose RegisterNode draws its id in this step, and those
\* whose RegisterNode stores its node and returns in this step.
Drawing == DOMAIN inFlight' \ DOMAIN inFlight
Returning == DOMAIN inFlight \ DOMAIN inFlight'

\* C11: under every interleaving of concurrent register calls, each call
\* returns an id no earlier call was given; the call stores its node without
\* touching any other entry; an entry stays retrievable with get until it is
\* unregistered; and the key of every entry is the entry's id.
C11_RegisteredIdsUniqueAndStable ==
  [][/\ \A h \in Drawing : inFlight'[h].node.ID \notin IssuedIDs
     /\ \A h \in Returning :
          LET id == inFlight[h].node.ID IN
            /\ id \notin DOMAIN nodes
            /\ id \in DOMAIN nodes'
            /\ \A other \in DOMAIN nodes : nodes'[other] = nodes[other]
            /\ last' = [op |-> "RegisterNode", code |-> 201]
     /\ \A id \in DOMAIN nodes :
          id \in DOMAIN nodes' \/ last' = [op |-> "UnregisterNode", code |-> 200]
     /\ \A nodeID \in NodeIDs :
          (last'.op = "GetNode" /\ GetNode(nodeID)) =>
             (last'.code = 200 <=> nodeID \in DOMAIN nodes)
     /\ \A id \in DOMAIN nodes' : nodes'[id].ID = id
     /\ \A id \in DOMAIN jsNodes' \ DOMAIN jsNodes : id \notin JsIssuedIDs
     /\ \A id \in DOMAIN jsNodes :
          id \in DOMAIN jsNodes' \/ last' = [op |-> "removeNode", code |-> Returned]
     /\ \A nodeId \in JsNodeIDs :
          (last'.op = "getNode" /\ getNode(nodeId)) =>
             (last'.code = 200 <=> nodeId \in DOMAIN jsNodes)
     /\ \A id \in DOMAIN jsNodes' : jsNodes'[id].id = id]_vars

\* C11 witness: two register calls overlap, and the one that drew its id
\* second has returned while the first is still waiting for the lock.
C11_Witness ==
  /\ \E h \in DOMAIN inFlight : inFlight[h].node.ID = 1
  /\ 2 \in DOMAIN nodes
  /\ nodes[2].ID = 2
  /\ last = [op |-> "RegisterNode", code |-> 201]

CollectionsUnchanged == nodes' = nodes /\ workloads' = workloads

\* The step removes entry id from collection m and nothing else.
RemovesOnly(m, mNext, id) ==
  /\ DOMAIN mNext = DOMAIN m \ {id}
  /\ \A other \in DOMAIN mNext : mNext[other] = m[other]

\* unregister and delete as C13 states them.
RemovalsAsClaimed ==
  /\ \A nodeID \in NodeIDs :
       (last'.op = "UnregisterNode" /\ UnregisterNode(nodeID)) =>
          IF nodeID \in DOMAIN nodes
            THEN /\ last'.code = 200
                 /\ RemovesOnly(nodes, nodes', nodeID)
                 /\ workloads' = workloads
            ELSE last'.code = 404 /\ CollectionsUnchanged
  /\ \A workloadID \in StoredWorkloadIDs :
       (last'.op = "DeleteWorkload" /\ DeleteWorkload(workloadID)) =>
          IF workloadID \in DOMAIN workloads
            THEN /\ last'.code = 200
                 /\ RemovesOnly(workloads, workloads', workloadID)
                 /\ nodes' = nodes
            ELSE last'.code = 404 /\ CollectionsUnchanged

\* C13 as stated: unregister, delete and scale with an id that is not in the
\* collection return NotFound and leave both collections as they were;
\* unregister and delete with a known id remove that entry and no other.
C13_UnknownIdIsNotFound ==
  [][/\ RemovalsAsClaimed
     /\ \A workloadID \in StoredWorkloadIDs, replicas \in ScaleInputs :
          (/\ last'.op = "ScaleWorkload"
           /\ ScaleWorkload(workloadID, replicas)
           /\ workloadID \notin DOMAIN workloads) =>
             last'.code = 404 /\ CollectionsUnchanged]_vars

\* C13 amended: scale with an unknown id returns NotFound when the replica
\* count is not zero, and the validation error 400 when it is zero or absent,
\* whether the id is known or not; either way both collections stay as they
\* were.
C13_UnknownIdIsNotFoundUnlessInvalid ==
  [][/\ RemovalsAsClaimed
     /\ \A workloadID \in StoredWorkloadIDs, replicas \in ScaleInputs :
          (last'.op = "ScaleWorkload" /\ ScaleWorkload(workloadID, replicas)) =>
             /\ replicas = 0 => last'.code = 400 /\ CollectionsUnchanged
             /\ (replicas # 0 /\ workloadID \notin DOMAIN workloads) =>
                  last'.code = 404 /\ CollectionsUnchanged]_vars

\* C13 witness: a delete has removed the first workload, which the scheduler
\* had placed, and the second workload is still in the collection.
C13_Witness ==
  /\ last = [op |-> "DeleteWorkload", code |-> 200]
  /\ DOMAIN workloads = {2}
  /\ workloads[2].Status = WorkloadStatusRunning
  /\ nodes # NoNodes

(***************************************************************************)
(* Validation claim (specification Spec).                                  *)
(***************************************************************************)
\* C20: a create without name, type or image is answered 400 and adds
\* nothing; every workload of the collection, and so every workload a tick
\* visits, was stored by a create that was answered 201.
C20_RejectedCreateAddsNothing ==
  [][/\ \A req \in IncompleteRequests :
          (/\ last'.op = "DeployWorkload"
           /\ DeployWorkload(req[1], req[2], req[3], 1, "", <<>>)) =>
             /\ last'.code = 400
             /\ workloads' = workloads
             /\ workloadSeq' = workloadSeq
             /\ schedTodo' = schedTodo
     /\ \A w \in DOMAIN workloads' \ DOMAIN workloads :
          last' = [op |-> "DeployWorkload", code |-> 201]
     /\ schedTodo' \subseteq DOMAIN workloads']_vars

\* C20 witness: a create has just been rejected, nothing was ever stored, and
\* the scheduler has nothing to visit.
C20_Witness ==
  /\ last = [op |-> "DeployWorkload", code |-> 400]
  /\ workloads = NoWorkloads
  /\ workloadSeq = 0
  /\ schedTodo = {}
  /\ nodes # NoNodes

(***************************************************************************)
(* Token claims (specification SpecCredentials).                           *)
(***************************************************************************)
\* C14: validateToken(nodeId, token) is true exactly when the node has an
\* entry, the entry's secret is the token and the clock is not past thirty
\* days after the entry was created; right after generateToken(nodeId) it is
\* true for the returned token, false for every other string and false for
\* every other node id.
C14_ValidateTokenIff ==
  [][/\ \A nodeId \in TokenNodeIDs, token \in TokenInputs :
          (last' = [op |-> "generateToken", code |-> token] /\ generateToken(nodeId)) =>
             /\ validateToken(nodeId, token)'
             /\ \A other \in TokenInputs \ {token} : ~validateToken(nodeId, other)'
             /\ \A n \in TokenNodeIDs \ {nodeId} : ~validateToken(n, token)'
     /\ \A nodeId \in TokenNodeIDs, token \in TokenInputs :
          validateToken(nodeId, token)' <=>
             /\ nodeId \in DOMAIN tokens'
             /\ tokens'[nodeId].token = token
             /\ clock' <= tokens'[nodeId].expiresAt
     /\ \A nodeId \in TokenNodeIDs, token \in TokenInputs :
          (last'.op = "validateToken" /\ callValidateToken(nodeId, token)) =>
             (last'.code = JsTrue <=> validateToken(nodeId, token))]_vars

\* C14 witness: the only token there is has been found valid at the very
\* instant it expires, thirty days after it was issued.
C14_Witness ==
  /\ last = [op |-> "validateToken", code |-> JsTrue]
  /\ \E nodeId \in TokenNodeIDs :
       /\ DOMAIN tokens = {nodeId}
       /\ clock = tokens[nodeId].expiresAt
       /\ clock = tokens[nodeId].createdAt + TokenValidity

\* C15: at most one secret validates for a node id, and a token issued for a
\* node that had one makes the earlier token invalid.
C15_OneLiveTokenPerNode ==
  [][/\ \A nodeId \in TokenNodeIDs :
          Cardinality({ token \in TokenInputs : validateToken(nodeId, token)' }) <= 1
     /\ \A nodeId \in DOMAIN tokens, first \in TokenInputs, second \in TokenInputs :
          (/\ tokens[nodeId].token = first
           /\ last' = [op |-> "generateToken", code |-> second]
           /\ generateToken(nodeId)) =>
             /\ ~validateToken(nodeId, first)'
             /\ validateToken(nodeId, second)']_vars

\* C15 witness: a second token has just been issued to a node.
C15_Witness ==
  /\ last = [op |-> "generateToken", code |-> 2]
  /\ DOMAIN tokens = {1}
  /\ tokens[1].token = 2
  /\ tokenSeq = 2

\* C16: revokeToken deletes the node's entry and returns true, or returns
\* false and changes nothing when there is none; a secret that was handed
\* out and is not the node's stored secret never validates for that node
\* again, whatever is issued later.
C16_RevokedTokenStaysInvalid ==
  [][/\ \A nodeId \in TokenNodeIDs :
          (last'.op = "revokeToken" /\ revokeToken(nodeId)) =>
             IF nodeId \in DOMAIN tokens
               THEN /\ last'.code = JsTrue
                    /\ tokens' = MapDelete(tokens, nodeId)
                    /\ \A secret \in TokenInputs : ~validateToken(nodeId, secret)'
               ELSE /\ last'.code = JsFalse
                    /\ tokens' = tokens
     /\ \A nodeId \in TokenNodeIDs, secret \in 1..tokenSeq :
          (nodeId \notin DOMAIN tokens \/ tokens[nodeId].token # secret) =>
             /\ nodeId \notin DOMAIN tokens' \/ tokens'[nodeId].token # secret
             /\ ~validateToken(nodeId, secret)']_vars

\* C16 witness: the token of node 1 has just been revoked, after two tokens
\* were issued, and node 2 still has its own.
C16_Witness ==
  /\ last = [op |-> "revokeToken", code |-> JsTrue]
  /\ DOMAIN tokens = {2}
  /\ tokenSeq >= 2

(***************************************************************************)
(* Certificate claims (specification SpecCredentials).                     *)
(***************************************************************************)
\* The certificates the store holds for a node.
CertificatesOf(nodeID) ==
  { id \in DOMAIN certificates : certificates[id].NodeID = nodeID }

\* C18: every certificate issued is stored under an id of its own, one that
\* no certificate issued before had, and the others stay as they were;
\* RevokeCertificate of a stored id removes that record and no other, and
\* RevokeCertificate of an id that is not stored (never issued, or already
\* revoked) answers "certificate not found" and leaves the store as it was.
C18_CertificatesIndependentlyIdentified ==
  [][/\ \A id \in DOMAIN certificates' : certificates'[id].ID = id
     /\ \A nodeID \in CertNodeIDs :
          (last' = [op |-> "GenerateCertificate", code |-> ErrNil]
             /\ GenerateCertificate(nodeID, TRUE)) =>
            \E certID \in CertificateIDs :
               /\ certID \notin DOMAIN certificates
               /\ certID \notin DOMAIN issuedPEMs
               /\ DOMAIN certificates' = DOMAIN certificates \cup {certID}
               /\ certificates'[certID].NodeID = nodeID
               /\ \A id \in DOMAIN certificates : certificates'[id] = certificates[id]
               /\ Cardinality(CertificatesOf(nodeID)') =
                    Cardinality(CertificatesOf(nodeID)) + 1
     /\ \A certificateID \in CertificateIDs :
          (last'.op = "RevokeCertificate" /\ RevokeCertificate(certificateID)) =>
            IF certificateID \in DOMAIN certificates
              THEN /\ last'.code = ErrNil
                   /\ DOMAIN certificates' = DOMAIN certificates \ {certificateID}
                   /\ \A id \in DOMAIN certificates' : certificates'[id] = certificates[id]
              ELSE /\ last'.code = ErrCertificateNotFound
                   /\ certificates' = certificates]_vars

\* C18 witness: three certificates were issued, the second one has just been
\* revoked, and the two that are left belong to one node.
C18_Witness ==
  /\ last = [op |-> "RevokeCertificate", code |-> ErrNil]
  /\ certSeq = 3
  /\ DOMAIN certificates = {1, 3}
  /\ certificates[1].NodeID = certificates[3].NodeID

\* The validity times read back from an issued certificate.
NotBeforeOf(certID) == ParseCertificate(issuedPEMs[certID]).NotBefore
NotAfterOf(certID) == ParseCertificate(issuedPEMs[certID]).NotAfter

\* ValidateClientCertificate has just answered for the issued certificate
\* certID.
Validated(certID) ==
  /\ last'.op = "ValidateClientCertificate"
  /\ callValidateClientCertificate(issuedPEMs[certID])

\* C19 as stated: an issued certificate validates exactly when the clock is
\* within its notBefore and notAfter, stored or revoked, and it does not
\* validate before the issuedAt or after the expiresAt of its record.
C19_ValidIffWithinRecordedWindow ==
  [][\A certID \in DOMAIN issuedPEMs :
        Validated(certID) =>
          /\ last'.code = ErrNil <=>
                (NotBeforeOf(certID) <= clock /\ clock <= NotAfterOf(certID))
          /\ (certID \in DOMAIN certificates
                /\ (clock < certificates[certID].IssuedAt
                      \/ clock > certificates[certID].ExpiresAt)) =>
               last'.code = ErrCertificateNotValid]_vars

\* C19: an issued certificate validates exactly when the clock is within
\* its notBefore and notAfter, stored or revoked; it does not validate
\* before the whole second its issuedAt lies in, or after its expiresAt.
C19_ValidIffWithinCertificateWindow ==
  [][\A certID \in DOMAIN issuedPEMs :
        Validated(certID) =>
          /\ last'.code = ErrNil <=>
                (NotBeforeOf(certID) <= clock /\ clock <= NotAfterOf(certID))
          /\ (certID \in DOMAIN certificates
                /\ (clock < TruncateToSecond(certificates[certID].IssuedAt)
                      \/ clock > certificates[certID].ExpiresAt)) =>
               last'.code = ErrCertificateNotValid
          /\ (certID \in DOMAIN certificates
                /\ TruncateToSecond(certificates[certID].IssuedAt) <= clock
                /\ clock <= TruncateToSecond(certificates[certID].ExpiresAt)) =>
               last'.code = ErrNil]_vars

\* C19 witness: a certificate that was issued and revoked has just been
\* found valid, the store being empty.
C19_Witness ==
  /\ last = [op |-> "ValidateClientCertificate", code |-> ErrNil]
  /\ certificates = NoCertificates
  /\ issuedPEMs # NoCertificates
  /\ \A certID \in DOMAIN issuedPEMs :
       NotBeforeOf(certID) <= clock /\ clock <= NotAfterOf(certID)

(***************************************************************************)
(* Authentication claim (specification SpecRoutes).                        *)
(***************************************************************************)
\* A request with the given headers is handled by one of the routes that
\* change state and are neither the registration of a node nor the issue of
\* a credential.
MutatingRequest(headers) ==
  \/ \E nodeId \in JsNodeIDs, status \in RouteStatusInputs :
       putNodeStatus(headers, nodeId, status)
  \/ \E request3 \in {CompleteRequest} \cup IncompleteRequests :
       postWorkloads(headers, request3[1], request3[2], request3[3])
  \/ \E workloadId \in JsWorkloadIDs, nodeId \in DeployNodeInputs :
       postWorkloadDeploy(headers, workloadId, nodeId)
  \/ \E nodeId \in JsNodeIDs : postNodeMetrics(headers, nodeId)

\* C17: a request to a mutating route takes effect only when its headers
\* name a node id and a token that validateToken accepts at that moment; any
\* other request is refused with 401 or 403 and changes nothing.
C17_MutationsNeedValidToken ==
  [][\A headers \in Headers :
        MutatingRequest(headers) =>
          \/ validateToken(headers.nodeId, headers.token)
          \/ /\ last'.code \in {401, 403}
             /\ UNCHANGED <<jsNodes, jsWorkloads, jsWorkloadSeq, jsMetrics>>]_vars

(***************************************************************************)
(* Workload creation (specification SpecRoutes).                           *)
(***************************************************************************)
\* C21: the workload a successful create returns is pending, has no
\* deployment yet, and has a desired replica count of 1 when the request
\* gave none.
C21_CreatedWorkloadIsPending ==
  [][\A headers \in Headers :
        (/\ postWorkloads(headers, CompleteRequest[1], CompleteRequest[2],
                          CompleteRequest[3])
         /\ last'.code = 201) =>
          \E workloadId \in DOMAIN jsWorkloads' \ DOMAIN jsWorkloads :
             LET workload == jsWorkloads'[workloadId] IN
               /\ workload.status = "PENDING"
               /\ workload.targetNodes = <<>>
               /\ "replicas" \in DOMAIN workload
               /\ workload.replicas = 1]_vars

(***************************************************************************)
(* Workload claims (specification SpecWorkloads).                          *)
(***************************************************************************)
\* The workload ids DeployWorkload has handed out and the collection does
\* not hold any more: the workloads that were deleted.
DeletedWorkloads == (1..workloadSeq) \ DOMAIN workloads

\* C22: a workload DeleteWorkload answered 200 for is out of the collection;
\* GetWorkload answers 404 for it, it never comes back, and no scheduling
\* tick visits it, places it or appends a record to it.
C22_DeletedWorkloadIsGone ==
  [][/\ \A workloadID \in StoredWorkloadIDs :
          (DeleteWorkload(workloadID) /\ last' = [op |-> "DeleteWorkload", code |-> 200]) =>
             /\ workloadID \in DOMAIN workloads
             /\ workloadID \in DeletedWorkloads'
             /\ workloads' = MapDelete(workloads, workloadID)
     /\ \A workloadID \in DeletedWorkloads :
          /\ workloadID \in DeletedWorkloads'
          /\ (last'.op = "GetWorkload" /\ GetWorkload(workloadID)) => last'.code = 404
          /\ workloadID \notin schedTodo'
          /\ workloadID # schedCur'
     /\ \A workloadID \in DOMAIN workloads' :
          workloads'[workloadID].Status # WorkloadStatusStopped]_vars

\* C22 witness: of two workloads the first is deleted and a scheduling tick
\* has just placed the second.
C22_Witness ==
  /\ last = [op |-> "scheduleWorkload", code |-> 0]
  /\ DeletedWorkloads = {1}
  /\ DOMAIN workloads = {2}
  /\ workloads[2].Status = WorkloadStatusRunning
  /\ schedPc = "idle"

(***************************************************************************)
(* Frame of the workload operations (specification SpecFrame).             *)
(***************************************************************************)
\* A step of a workload handler or of the scheduling tick.
WorkloadOperation ==
  \/ \E replicas \in ReplicaInputs :
       DeployWorkload(CompleteRequest[1], CompleteRequest[2], CompleteRequest[3],
                      replicas, "", <<>>)
  \/ ListWorkloads
  \/ \E workloadID \in WorkloadIDs : GetWorkload(workloadID)
  \/ \E workloadID \in WorkloadIDs : DeleteWorkload(workloadID)
  \/ \E workloadID \in WorkloadIDs, replicas \in ReplicaInputs :
       ScaleWorkload(workloadID, replicas)
  \/ scheduleWorkloads
  \/ \E w \in WorkloadIDs : SkipWorkload(w)
  \/ \E w \in WorkloadIDs,
        candidates \in UNION { Orderings(S) : S \in SUBSET NodeIDs } :
       selectNodesForWorkload(w, candidates)
  \/ scheduleWorkload

\* C23: create, scale, delete, get, list and the steps of the scheduling
\* tick leave the registry as it is, and the status of a node that stays in
\* the registry changes only in a heartbeat or in the health sweep.
C23_WorkloadOperationsLeaveNodes ==
  [][/\ WorkloadOperation => (nodes' = nodes /\ nodeSeq' = nodeSeq)
     /\ \A nodeID \in DOMAIN nodes \cap DOMAIN nodes' :
          nodes'[nodeID].Status # nodes[nodeID].Status =>
            \/ \E status \in HeartbeatStatuses : NodeHeartbeat(nodeID, status)
            \/ checkNodeHealth]_vars

\* C23 witness: the tick has just placed a workload that has a record on a
\* node a heartbeat has set degraded.
C23_Witness ==
  /\ last = [op |-> "scheduleWorkload", code |-> 0]
  /\ \E w \in DOMAIN workloads :
       /\ workloads[w].Status = WorkloadStatusRunning
       /\ \E i \in DOMAIN workloads[w].Deployments :
            LET nodeID == workloads[w].Deployments[i].NodeID IN
              /\ nodeID \in DOMAIN nodes
              /\ nodes[nodeID].Status = NodeStatusDegraded

(***************************************************************************)
(* Node status (specification SpecStatus).                                 *)
(***************************************************************************)
\* C24: the status of every node in the registry is one of the statuses of
\* the implementation, whatever the heartbeats and status updates carried.
C24_NodeStatusInEnumeration ==
  /\ \A nodeID \in DOMAIN nodes : nodes[nodeID].Status \in NodeStatuses
  /\ \A nodeId \in DOMAIN jsNodes : jsNodes[nodeId].status \in JsNodeStatuses

\* The threads that take the lock of the node collection.
NodeThreads == Threads \cup {"sched"}

\* Thread t is at a statement that assigns a field of a node.
WritingNode(t) ==
  \/ t = "sweep" /\ pcs["sweep"] = "mark"
  \/ t = "heartbeat" /\ pcs["heartbeat"] = "write" /\ hbCur \in DOMAIN nodes

\* Thread t holds the read lock of the node collection and reads the fields
\* of its nodes.
ReadingNode(t) ==
  \/ t = "list" /\ pcs["list"] = "read" /\ "list" \in nodeLock.readers
  \/ t = "sched" /\ schedPc = "select" /\ "sched" \in nodeLock.readers

\* C25: a thread that writes a field of a node holds the exclusive lock of
\* the node collection, and no other thread holds the read lock and reads
\* the nodes meanwhile.
C25_NodeWritesUnderExclusiveLock ==
  \A t \in NodeThreads :
    WritingNode(t) =>
      /\ nodeLock.writer = t
      /\ \A u \in NodeThreads \ {t} : ~ReadingNode(u)

\* C26: the scheduling pass never holds the lock of the node collection and
\* the lock of the workload collection at the same time.
C26_TickHoldsOneLock ==
  ~(/\ "sched" \in nodeLock.readers \cup {nodeLock.writer}
    /\ "sched" \in workloadLock.readers \cup {workloadLock.writer})

\* The node as checkNodeHealth leaves it when it marks it offline.
SweepWrite(node, t) == [node EXCEPT !.Status = NodeStatusOffline, !.UpdatedAt = t]

\* The node as NodeHeartbeat leaves it.
HeartbeatWrite(node, status, t) ==
  [node EXCEPT !.Status = status, !.LastHeartbeat = t, !.UpdatedAt = t]

\* C27: heartbeats and health sweeps on a registered node.  The sweep writes
\* to a node that is still registered, stale and not offline, as it was when
\* the sweep decided; a heartbeat for a registered node is answered 200 while
\* no sweep is in its loop; and each change of a node is the whole write of
\* one heartbeat or of one sweep, on the node as the previous write left it.
C27_HeartbeatAndSweepAtomic ==
  /\ [](pcs["sweep"] = "mark" =>
          /\ sweepCur \in DOMAIN nodes
          /\ now - nodes[sweepCur].LastHeartbeat > GoStaleMinutes
          /\ nodes[sweepCur].Status # NodeStatusOffline)
  /\ [][\A status \in NodeStatuses :
          NodeHeartbeatWrite(status) /\ hbCur \in DOMAIN nodes =>
            /\ last' = [op |-> "NodeHeartbeat", code |-> 200]
            /\ pcs["sweep"] = "idle"]_vars
  /\ [][\A nodeID \in DOMAIN nodes \cap DOMAIN nodes' :
          nodes'[nodeID] # nodes[nodeID] =>
            \/ /\ pcs["heartbeat"] = "write"
               /\ hbCur = nodeID
               /\ \E status \in NodeStatuses :
                    nodes'[nodeID] = HeartbeatWrite(nodes[nodeID], status, now)
            \/ /\ pcs["sweep"] = "mark"
               /\ sweepCur = nodeID
               /\ nodes'[nodeID] = SweepWrite(nodes[nodeID], now)]_vars

\* A heartbeat holds the lock and is about to write to the node that the
\* sweep has just marked offline.
C27_Witness ==
  /\ pcs["heartbeat"] = "write"
  /\ hbCur \in DOMAIN nodes
  /\ nodes[hbCur].Status = NodeStatusOffline
  /\ last = [op |-> "checkNodeHealth", code |-> 1]

\* C28: ScaleWorkload and the scheduling pass.  A scale that is answered 200
\* leaves the workload pending with the new replica count; a selection that
\* waits to be recorded was computed for a workload that is still pending,
\* from the replica count it has now; and a pending workload becomes running
\* only by a placement of as many records as its present replica count and
\* the snapshot's candidates allow.
C28_ScaledWorkloadWaitsForItsTick ==
  /\ [](schedPc = "deploy" =>
          /\ schedCur \in DOMAIN workloads
          /\ workloads[schedCur].Status = WorkloadStatusPending
          /\ Len(schedSel) =
               Min(maxNodesOf(workloads[schedCur]),
                   Cardinality(Eligible(schedSnap, workloads[schedCur]))))
  /\ [][\A w \in StoredWorkloadIDs, n \in RescaleInputs :
          ScaleWorkload(w, n) /\ last' = [op |-> "ScaleWorkload", code |-> 200] =>
            /\ workloads'[w].Status = WorkloadStatusPending
            /\ workloads'[w].Replicas = n]_vars
  /\ [][\A w \in DOMAIN workloads \cap DOMAIN workloads' :
          /\ workloads[w].Status = WorkloadStatusPending
          /\ workloads'[w].Status # WorkloadStatusPending
          => /\ workloads'[w].Status = WorkloadStatusRunning
             /\ workloads'[w].Replicas = workloads[w].Replicas
             /\ Len(workloads'[w].Deployments) - Len(workloads[w].Deployments) =
                  Min(maxNodesOf(workloads[w]),
                      Cardinality(Eligible(schedSnap, workloads[w])))]_vars

\* A workload placed with one replica was scaled to MaxReplicas and placed
\* again: it is running with the one record and MaxReplicas more.
C28_Witness ==
  /\ last = [op |-> "scheduleWorkload", code |-> 0]
  /\ \E w \in DOMAIN workloads :
       /\ workloads[w].Status = WorkloadStatusRunning
       /\ workloads[w].Replicas = MaxReplicas
       /\ Len(workloads[w].Deployments) = 1 + MaxReplicas

\* Sequence a is the beginning of sequence b.
IsPrefix(a, b) == Len(a) <= Len(b) /\ SubSeq(b, 1, Len(a)) = a

\* C29: deployment records and the nodes they name.  No step removes or
\* rewrites a record of a workload that stays in the collection, the step
\* that unregisters a node included; and the pass records every node of its
\* selection, whatever the registry holds when it does.
C29_RecordsOutliveTheirNode ==
  /\ [][\A w \in DOMAIN workloads \cap DOMAIN workloads' :
          IsPrefix(workloads[w].Deployments, workloads'[w].Deployments)]_vars
  /\ [][\A nodeID \in NodeIDs :
          UnregisterNode(nodeID) /\ nodeID \in DOMAIN nodes =>
            /\ nodeID \notin DOMAIN nodes'
            /\ workloads' = workloads]_vars
  /\ [][schedPc = "deploy" /\ schedPc' # "deploy" =>
          /\ workloads'[schedCur].Deployments =
               workloads[schedCur].Deployments \o NewDeployments(schedSel)
          /\ nodes' = nodes]_vars

\* A pass has just appended two records (the workload had one, and an
\* earlier scale to MaxReplicas allows no other history for
\* 1 + MaxReplicas records): one names a node that has been unregistered
\* since the selection, the other a node that the sweep has set offline.
C29_Witness ==
  /\ last = [op |-> "scheduleWorkload", code |-> 0]
  /\ \E w \in DOMAIN workloads :
       LET deployments == workloads[w].Deployments IN
         /\ Len(deployments) = 1 + MaxReplicas
         /\ \E i, j \in 2..Len(deployments) :
              /\ deployments[i].NodeID \notin DOMAIN nodes
              /\ deployments[j].NodeID \in DOMAIN nodes
              /\ nodes[deployments[j].NodeID].Status = NodeStatusOffline

\* Workload w is running and one of its deployment records names a node
\* that is offline or no longer registered.
RunningOnLost(w) ==
  /\ w \in DOMAIN workloads
  /\ workloads[w].Status = WorkloadStatusRunning
  /\ \E i \in 1..Len(workloads[w].Deployments) :
       LET nodeID == workloads[w].Deployments[i].NodeID IN
         \/ nodeID \notin DOMAIN nodes
         \/ nodes[nodeID].Status = NodeStatusOffline

\* C30: a running workload with a record on a lost node does not stay so
\* for ever while the health checker and the scheduler keep running.
C30_LostPlacementIsReconciled ==
  \A w \in WorkloadIDs : RunningOnLost(w) ~> ~RunningOnLost(w)

\* Workload w is in the collection and a registered node is online and
\* matches all its constraints.
Schedulable(w) ==
  /\ w \in DOMAIN workloads
  /\ Eligible(nodes, workloads[w]) # {}

\* C31: a workload that from some point on stays in the collection with an
\* online node that matches its constraints is running from some point on,
\* when the scheduler keeps ticking.
C31_PendingIsEventuallyScheduled ==
  \A w \in WorkloadIDs :
    <>[]Schedulable(w) =>
      <>[](w \in DOMAIN workloads /\ workloads[w].Status = WorkloadStatusRunning)

\* C32: the scheduler survives every workload it visits.  The step of a pass
\* that takes a workload from the range loop leaves the scheduler running,
\* and goes on to that workload's records or to the rest of the loop.
C32_TickSurvivesEveryWorkload ==
  [][schedPc = "range" /\ schedTodo' # schedTodo =>
       /\ ~crashed'
       /\ schedPc' \in {"deploy", AfterVisit(schedTodo')}]_vars

\* C33: once the shutdown signal is received, the health checker starts no
\* sweep and the scheduler starts no pass; and when the loops stop, no pass
\* is left unfinished.
C33_LoopsStopAtTheSignal ==
  /\ [][mainPc # "serving" => ~checkNodeHealth /\ ~scheduleWorkloads]_vars
  /\ [](mainPc = "exited" => schedPc = "idle")

\* The values of a constraint, as a set.
ValuesOf(constraint) == { constraint.Values[k] : k \in 1..Len(constraint.Values) }

\* The node satisfies the constraint: its region, its zone or its label of
\* the constraint's key is one of the values; the operator is not read.
Satisfies(node, constraint) ==
  IF constraint.Key = "region" THEN node.Region \in ValuesOf(constraint)
  ELSE IF constraint.Key = "zone" THEN node.Zone \in ValuesOf(constraint)
  ELSE /\ constraint.Key \in DOMAIN node.Labels
       /\ node.Labels[constraint.Key] \in ValuesOf(constraint)

\* The constraint list with every operator replaced.
WithOperator(constraints, operator) ==
  [i \in 1..Len(constraints) |-> [constraints[i] EXCEPT !.Operator = operator]]

\* C34: nodeMatchesConstraints answers true exactly when the node satisfies
\* every constraint of the list; the answer is the same whatever the
\* operators are, and true for the empty list.
C34_MatchesIffEveryConstraintHolds ==
  [][\A nodeID \in NodeIDs, w \in WorkloadIDs :
       MatchNode(nodeID, w) =>
         LET node == nodes[nodeID]
             constraints == workloads[w].Placement.Constraints
         IN /\ last'.code = 1 <=>
                 \A i \in 1..Len(constraints) : Satisfies(node, constraints[i])
            /\ \A operator \in OperatorInputs \cup {""} :
                 nodeMatchesConstraints(node, WithOperator(constraints, operator))
                   <=> last'.code = 1
            /\ constraints = <<>> => last'.code = 1]_vars

\* The answer was false for a registry of nodes without labels and a
\* workload whose only constraint is on the label "tier".
C34_Witness ==
  /\ last = [op |-> "nodeMatchesConstraints", code |-> 0]
  /\ \A nodeID \in DOMAIN nodes : nodes[nodeID].Labels = NoLabels
  /\ \E w \in DOMAIN workloads :
       /\ Len(workloads[w].Placement.Constraints) = 1
       /\ workloads[w].Placement.Constraints[1].Key = "tier"
       /\ contains(workloads[w].Placement.Constraints[1].Values, "gpu")

\* C35: whatever the strategy of the workload, the pass selects the nodes
\* selectEdgeFirstNodes selects from the same candidates for the same
\* replica count, selects none when it selects none, and panics when it
\* panics.
C35_EveryStrategyIsEdgeFirst ==
  [][\A w \in WorkloadIDs,
        candidates \in UNION { Orderings(S) : S \in SUBSET NodeIDs } :
       selectNodesForWorkload(w, candidates) =>
         IF selectPanics(candidates, workloads[w])
           THEN crashed'
           ELSE LET selected == selectEdgeFirstNodes(candidates, workloads[w]) IN
                  /\ ~crashed'
                  /\ Len(selected) # 0 => schedPc' = "deploy" /\ schedSel' = selected
                  /\ Len(selected) = 0 => schedPc' # "deploy"]_vars

\* A pass has selected one of two candidates for a workload whose strategy
\* is load-balance.
C35_Witness ==
  /\ schedPc = "deploy"
  /\ workloads[schedCur].Placement.Strategy = PlacementStrategyLoadBalance
  /\ Len(schedSel) = 1
  /\ Cardinality(Eligible(schedSnap, workloads[schedCur])) = 2

\* Every goroutine that takes a lock.
LockThreads == NodeThreads \cup Handlers \cup {"collect"}

\* Thread t holds the mutex, shared or exclusively.
Holds(mutex, t) == t \in mutex.readers \/ mutex.writer = t

\* Thread t is outside its function, or has not got its first lock yet.
Outside(t) ==
  CASE t = "sched" -> schedPc \in {"idle", "lock"}
    [] t = "collect" -> collectPc \in {"idle", "lock"}
    [] t \in Handlers -> handlerPcs[t] = "idle"
    [] OTHER -> pcs[t] \in {"idle", "lock"}

\* Thread t is outside its function.
Idle(t) ==
  CASE t = "sched" -> schedPc = "idle"
    [] t = "collect" -> collectPc = "idle"
    [] t \in Handlers -> handlerPcs[t] = "idle"
    [] OTHER -> pcs[t] = "idle"

\* C36: the locks are taken in one order (the metrics lock before the
\* others, the workload lock before the node lock), a goroutine outside its
\* function holds no lock, and every goroutine that has entered its function
\* leaves it again: none waits for ever.
C36_NoDeadlock ==
  /\ [][\A t \in LockThreads :
          /\ ~Holds(workloadLock, t) /\ Holds(workloadLock, t)' =>
               ~Holds(nodeLock, t)
          /\ ~Holds(metricsLock, t) /\ Holds(metricsLock, t)' =>
               ~Holds(nodeLock, t) /\ ~Holds(workloadLock, t)]_vars
  /\ [](\A t \in LockThreads :
          Outside(t) =>
            ~Holds(nodeLock, t) /\ ~Holds(workloadLock, t) /\ ~Holds(metricsLock, t))
  /\ \A t \in LockThreads : []<>Idle(t)

\* The scheduler holds the workload lock and reads the nodes under the
\* node lock, a heartbeat waits for the node lock, and the collector holds
\* the metrics lock and waits behind that heartbeat.
C36_Witness ==
  /\ schedPc = "select"
  /\ Holds(workloadLock, "sched")
  /\ Holds(nodeLock, "sched")
  /\ NodeWriterWaits
  /\ collectPc = "nodesRLock"
  /\ Holds(metricsLock, "collect")

\* C37: every snapshot that collectMetrics publishes counts no more online
\* nodes than nodes and no more running workloads than workloads.
C37_SnapshotCountsAreConsistent ==
  DOMAIN metrics # {} =>
    /\ metrics.nodes_online <= metrics.nodes_total
    /\ metrics.workloads_running <= metrics.workloads_total

\* C38: a running workload of the Go orchestrator has at least one
\* deployment record, and a workload without any record is pending.
C38_RunningHasARecord ==
  \A w \in DOMAIN workloads :
    /\ workloads[w].Status = WorkloadStatusRunning =>
         Len(workloads[w].Deployments) >= 1
    /\ workloads[w].Deployments = <<>> =>
         workloads[w].Status = WorkloadStatusPending

\* A scheduling pass has just set a workload running, and it has a record.
C38_Witness ==
  /\ last.op = "scheduleWorkload"
  /\ last.code = 0
  /\ \E w \in DOMAIN workloads :
       /\ workloads[w].Status = WorkloadStatusRunning
       /\ Len(workloads[w].Deployments) >= 1

\* The status, lastSeen or metrics of node n change in the step.
JsNodeChanges(n) ==
  \/ n \in DOMAIN jsNodes /\ n \in DOMAIN jsNodes' /\ jsNodes'[n] # jsNodes[n]
  \/ /\ n \in DOMAIN jsMetrics'
     /\ n \notin DOMAIN jsMetrics \/ jsMetrics'[n] # jsMetrics[n]

\* C39: a status update or a metrics report changes the record of no node
\* but the one the caller authenticated as.
C39_CallerChangesOwnNodeOnly ==
  [][(\/ \E headers \in Headers, nodeId \in JsNodeIDs, status \in RouteStatusInputs :
          putNodeStatus(headers, nodeId, status)
      \/ \E headers \in Headers, nodeId \in JsNodeIDs : postNodeMetrics(headers, nodeId))
     => \A n \in JsNodeIDs : JsNodeChanges(n) => request'.nodeId = n]_vars

\* The number of places of the sequence that hold the value.
Occurrences(seq, value) == Cardinality({ i \in DOMAIN seq : seq[i] = value })

====
